---------------------------- MODULE Spec2Model ----------------------------
(* LynxHealth front end: the three routed views that hold state             *)
(*   - CreateAppointmentsComponent   (admin block-time grid)                *)
(*   - AvailabilityCalendarComponent (student availability and booking)     *)
(*   - MyAppointmentsComponent       (student notes / reschedule / cancel)  *)
(* The router mounts one view at a time: `view` says which one.  The        *)
(* REST backend is not part of the front-end sources; it is modelled from   *)
(* the contract the views rely on (the srv* variables and Serve* actions).  *)
(* Instants are seconds of local time counted from Monday 00:00 of the      *)
(* week the session starts in.                                              *)
EXTENDS Integers, Sequences, FiniteSets, TLC

VARIABLES
  view,                 \* which component the router has mounted
  role,                 \* readonly role, read from the session at construction
  sessionEmail,         \* readonly sessionEmail, read likewise
  lynxSession,          \* the item 'lynxSession' of localStorage
  errorMessage,         \* LoginComponent.errorMessage
  userActions,          \* how many clicks and navigations the user has made
  now,                  \* the wall clock (new Date())
  srvBlocks,            \* backend: blocked times, records [id, start_time]
  srvAppointments,      \* backend: booked appointments
  srvNextId,            \* backend: next id it hands out
  \* ---- CreateAppointmentsComponent
  mounted,              \* ngOnInit has run
  weekStart, calendarDays, calendarRows,
  blockedTimes, blockedMap, bookedAppointments, bookedSlotKeys,
  adminMessage, adminError, isSaving,
  autoRefreshTimer, isDestroyed,
  viewRefreshed,        \* the component's last step called cdr.detectChanges()
  toggles,              \* the toggleBlocked invocations, in call order
  toggleCount,          \* how many toggleBlocked calls got past the guards
  initBlocked,          \* ngOnInit's loadBlockedTimes call
  initBooked,           \* ngOnInit's loadBookedAppointments call
  polls,                \* loadBookedAppointments calls started by the timer
  \* ---- AvailabilityCalendarComponent
  cal,                  \* the component's fields, as a record
  calLoads,             \* loadCalendar calls of onAppointmentTypeChange in flight
  bookings,             \* the submitBooking invocations, in call order
  bookingCount,         \* how many submitBooking calls got past the guard
  \* ---- MyAppointmentsComponent
  mine,                 \* the component's fields, as a record
  mineMounted,          \* ngOnInit has run
  mineLoad,             \* ngOnInit's loadAppointments call
  mineOps,              \* the calls that await a response, in call order
  mineOpCount           \* how many of them were started

srvVars   == <<srvBlocks, srvAppointments, srvNextId>>
adminVars == <<mounted, weekStart, calendarDays, calendarRows, blockedTimes,
               blockedMap, bookedAppointments, bookedSlotKeys, adminMessage,
               adminError, isSaving, autoRefreshTimer, isDestroyed, viewRefreshed,
               toggles, toggleCount, initBlocked, initBooked, polls>>
availVars == <<cal, calLoads, bookings, bookingCount>>
envVars   == <<view, role, sessionEmail, lynxSession, errorMessage, now>>
mineVars  == <<mine, mineMounted, mineLoad, mineOps, mineOpCount>>
notAdminVars == <<availVars, mineVars>>
notAvailVars == <<adminVars, mineVars>>
notMineVars  == <<adminVars, availVars>>
vars      == <<envVars, userActions, srvVars, adminVars, availVars, mineVars>>

-----------------------------------------------------------------------------
(* Bounds of the model *)
MaxAdminActions == 2   \* clicks and navigations of the admin in one session
MaxAvailActions == 4   \* the same, of a student in the availability view
MaxMineActions == 3    \* the same, in the my-appointments view
MaxPolls   == 1        \* timer-started fetches in flight at once
MaxInFlight == 2       \* requests of the view awaiting their response at once
MaxRows    == 13       \* rows of the grid kept, from 09:00 on (the code: 28)

-----------------------------------------------------------------------------
(* Optional values: undefined / null is <<>>, a present value x is <<x>> *)
None    == <<>>
Some(x) == <<x>>

HourSecs == 60 * 60
DaySecs  == 24 * HourSecs
At(day, hh, mm) == day * DaySecs + hh * HourSecs + mm * 60

SeqToSet(s) == { s[i] : i \in DOMAIN s }

-----------------------------------------------------------------------------
(* The session item of localStorage and its readers.

   A string is the sequence of its characters.  A JSON value is a record
   [t, s, n]: t its type, s the characters of a string, n a number.  The
   stored item is a record [form, value, role, email]: form tells whether
   getItem returns null ("absent"), the empty string ("empty"), a text that
   JSON.parse rejects ("garbage") or a JSON text ("json"); value is what the
   JSON text parses to and, for an object, role and email are its members
   of those names, None when it has none *)

\* a JSON value of a type that carries nothing the readers look at
Js(t)        == [t |-> t, s |-> <<>>, n |-> 0]
JsNumber(n)  == [t |-> "number",    s |-> <<>>, n |-> n]
JsString(s)  == [t |-> "string",    s |-> s,    n |-> 0]

AdminText      == << "a", "d", "m", "i", "n" >>
UserText       == << "u", "s", "e", "r" >>
StudentText    == << "s", "t", "u", "d", "e", "n", "t" >>
LocalDomain    == << "@", "l", "y", "n", "x", "h", "e", "a", "l", "t", "h", ".",
                     "l", "o", "c", "a", "l" >>
SamText        == << "s", "a", "m", "@", "r", "h", "o", "d", "e", "s", ".", "e", "d", "u" >>
SamMixedCase   == << "S", "a", "m", "@", "R", "h", "o", "d", "e", "s", ".", "E", "D", "U" >>
AdminDomain    == << "@", "a", "d", "m", "i", "n", ".", "e", "d", "u" >>
DeanText       == << "D", "e", "a", "n" >> \o AdminDomain

\* the string of a sequence of characters
RECURSIVE Join(_)
Join(chars) == IF chars = <<>> THEN "" ELSE Head(chars) \o Join(Tail(chars))

WhiteSpace == { " ", "\t", "\n" }

\* String.prototype.trim
RECURSIVE trimStart(_)
trimStart(s) ==
  IF s # <<>> /\ Head(s) \in WhiteSpace THEN trimStart(Tail(s)) ELSE s

RECURSIVE trimEnd(_)
trimEnd(s) ==
  IF s # <<>> /\ s[Len(s)] \in WhiteSpace THEN trimEnd(SubSeq(s, 1, Len(s) - 1)) ELSE s

trim(s) == trimEnd(trimStart(s))

UpperCase == << "A", "B", "C", "D", "E", "F", "G", "H", "I", "J", "K", "L", "M",
                "N", "O", "P", "Q", "R", "S", "T", "U", "V", "W", "X", "Y", "Z" >>
LowerCase == << "a", "b", "c", "d", "e", "f", "g", "h", "i", "j", "k", "l", "m",
                "n", "o", "p", "q", "r", "s", "t", "u", "v", "w", "x", "y", "z" >>

\* String.prototype.toLowerCase
toLowerCase(s) ==
  [i \in DOMAIN s |->
     IF \E k \in DOMAIN UpperCase : UpperCase[k] = s[i]
     THEN LowerCase[CHOOSE k \in DOMAIN UpperCase : UpperCase[k] = s[i]]
     ELSE s[i]]

StoredItem(form, value, roleMember, emailMember) ==
  [form |-> form, value |-> value, role |-> roleMember, email |-> emailMember]

\* what an expression evaluates to: a value, or an exception thrown
Returned(v) == [thrown |-> FALSE, value |-> v]
Thrown      == [thrown |-> TRUE,  value |-> Js("undefined")]

\* JSON.parse(data)
JSONparse(data) == IF data.form = "json" THEN Returned(data) ELSE Thrown

\* parsed.role, parsed.email: a TypeError on null, undefined on a value that
\* has no such member
Member(parsed, name) ==
  IF parsed.value.t = "null" THEN Thrown
  ELSE IF parsed.value.t # "object" THEN Returned(Js("undefined"))
  ELSE LET member == IF name = "role" THEN parsed.role ELSE parsed.email
       IN  IF member = None THEN Returned(Js("undefined")) ELSE Returned(member[1])

\* !data
IsFalsyItem(data) == data.form \in { "absent", "empty" }

\* what a reader yields when an exception leaves it
Uncaught == "uncaught exception"

\* the try block of getRole
RoleOf(data) ==
  LET parsed == JSONparse(data)
  IN  IF parsed.thrown THEN Thrown
      ELSE LET member == Member(parsed.value, "role")
           IN  IF member.thrown THEN Thrown
               ELSE IF member.value = JsString(AdminText) THEN Returned("admin")
               ELSE Returned("user")

getRole(data) ==
  IF IsFalsyItem(data) THEN "user"
  ELSE IF RoleOf(data).thrown THEN "user"
  ELSE RoleOf(data).value

\* the default email of each view's reader
Placeholder(v) ==
  IF v = "admin" THEN Join(UserText \o LocalDomain) ELSE Join(StudentText \o LocalDomain)

\* the try block of getSessionEmail: parsed.email?.trim().toLowerCase()
\* and the || of the return
EmailOf(v, data) ==
  LET parsed == JSONparse(data)
  IN  IF parsed.thrown THEN Thrown
      ELSE LET member == Member(parsed.value, "email")
           IN  IF member.thrown THEN Thrown
               ELSE IF member.value.t \in { "undefined", "null" }
               THEN Returned(Placeholder(v))
               ELSE IF member.value.t # "string" THEN Thrown
               ELSE LET normalized == toLowerCase(trim(member.value.s))
                    IN  IF normalized = <<>> THEN Returned(Placeholder(v))
                        ELSE Returned(Join(normalized))

\* getSessionEmail without its try and catch
getSessionEmail_NoCatch(v, data) ==
  IF IsFalsyItem(data) THEN Placeholder(v)
  ELSE IF EmailOf(v, data).thrown THEN Uncaught
  ELSE EmailOf(v, data).value

getSessionEmail(v, data) ==
  IF IsFalsyItem(data) THEN Placeholder(v)
  ELSE IF EmailOf(v, data).thrown THEN Placeholder(v)
  ELSE EmailOf(v, data).value

\* String.prototype.endsWith
endsWith(s, suffix) ==
  /\ Len(s) >= Len(suffix)
  /\ SubSeq(s, Len(s) - Len(suffix) + 1, Len(s)) = suffix

\* LoginComponent.onSubmit: whether it refuses the form, and the session it
\* stores when it does not
LoginRefused(email, r) ==
  r = "admin" /\ ~endsWith(toLowerCase(trim(email)), AdminDomain)

\* an onSubmit that stores the email as it was typed
LoginSession_AsTyped(email, r) ==
  StoredItem("json", Js("object"),
             Some(JsString(IF r = "admin" THEN AdminText ELSE UserText)),
             Some(JsString(email)))

LoginSession(email, r) ==
  LET normalizedEmail == toLowerCase(trim(email))
  IN  StoredItem("json", Js("object"),
                 Some(JsString(IF r = "admin" THEN AdminText ELSE UserText)),
                 Some(JsString(IF normalizedEmail # <<>> THEN normalizedEmail
                               ELSE (IF r = "admin" THEN AdminText ELSE UserText)
                                    \o LocalDomain)))

\* the sessions of the two users of the views
LoginSessions == { LoginSession(DeanText, "admin"), LoginSession(SamText, "user") }

\* items that localStorage may hold
RoleMembers ==
  { None } \cup
  { Some(x) : x \in { Js("null"), JsNumber(1), Js("true"), Js("array"), JsString(AdminText),
                      JsString(UserText),
                      JsString(<< "A", "d", "m", "i", "n" >>),
                      JsString(<< " " >> \o AdminText) } }

EmailMembers ==
  { None } \cup
  { Some(x) : x \in { Js("null"), JsNumber(0), JsNumber(42), Js("false"), Js("array"), Js("object"),
                      JsString(<<>>), JsString(<< " ", "\t" >>), JsString(SamText),
                      JsString(<< " " >> \o SamMixedCase \o << " " >>) } }

StoredItems ==
  { StoredItem(form, Js("undefined"), None, None) : form \in { "absent", "empty", "garbage" } }
  \cup { StoredItem("json", x, None, None) :
           x \in { Js("null"), JsNumber(0), JsNumber(42), Js("true"), Js("false"),
                   JsString(AdminText), Js("array") } }
  \cup { StoredItem("json", Js("object"), r, e) : r \in RoleMembers, e \in EmailMembers }

-----------------------------------------------------------------------------
(* Date helpers of CreateAppointmentsComponent *)

\* Date.getDay(): 0 = Sunday; instant 0 is a Monday
getDay(t) == ((t \div DaySecs) + 1) % 7

getStartOfDay(t) == (t \div DaySecs) * DaySecs

\* the week start of the earlier revision of the component (part_004, lines
\* 164-169), which goes back to the Sunday
getWeekStart_ToSunday(date) ==
  LET start == getStartOfDay(date)
  IN  start - getDay(start) * DaySecs

getWeekStart(date) ==
  LET start  == getStartOfDay(date)
      day    == getDay(start)
      offset == IF day = 0 THEN -6 ELSE 1 - day
  IN  start + offset * DaySecs

\* "YYYY-MM-DD" of the local date: the local day number stands for the string
formatDateKey(date) == date \div DaySecs

\* "HH:MM:00" is the pair <<HH, MM>>; "<dateKey>T<HH:MM:00>" the triple
getSlotKey(date) ==
  <<formatDateKey(date), (date % DaySecs) \div HourSecs, (date % HourSecs) \div 60>>

RECURSIVE SlotKeysFrom(_, _)
SlotKeysFrom(cursor, end) ==
  IF cursor < end
  THEN <<getSlotKey(cursor)>> \o SlotKeysFrom(cursor + 15 * 60, end)
  ELSE <<>>

getSlotKeysInRange(start, end) ==
  SlotKeysFrom((start \div 60) * 60, end)

RECURSIVE TimeSlotsFrom(_, _)
TimeSlotsFrom(current, end) ==
  IF current <= end
  THEN <<<<current \div 60, current % 60>>>> \o TimeSlotsFrom(current + 15, end)
  ELSE <<>>

\* lines 372-383; the grid of the model stops after MaxRows rows
buildTimeSlots == TimeSlotsFrom(9 * 60, 9 * 60 + 15 * (MaxRows - 1))

timeSlots == buildTimeSlots

isLunchBreakSlot(slot) == slot[1] = 12

\* "h:MM AM|PM" as <<h, MM, suffix>>
formatTime(value) ==
  LET hour   == value[1]
      minute == value[2]
      suffix == IF hour >= 12 THEN "PM" ELSE "AM"
      normalizedHour == IF hour % 12 = 0 THEN 12 ELSE hour % 12
  IN  <<normalizedHour, minute, suffix>>


-----------------------------------------------------------------------------
(* The grid: buildCalendar *)

\* Map.get: undefined when the key is absent
MapGet(map, key) == IF key \in DOMAIN map THEN Some(map[key]) ELSE None

\* Map.set / Map.delete
MapSet(map, key, value) ==
  [k \in DOMAIN map \cup {key} |-> IF k = key THEN value ELSE map[k]]

MapDelete(map, key) == [k \in DOMAIN map \ {key} |-> map[k]]

EmptyMap == [k \in {} |-> 0]

\* lines 315-336: the Monday..Friday days of the week that are not before today
RECURSIVE CalendarDaysFrom(_, _, _)
CalendarDaysFrom(i, ws, today) ==
  IF i < 5
  THEN LET dayDate == getStartOfDay(ws + i * DaySecs)
       IN  (IF dayDate < today
            THEN <<>>
            ELSE <<[date |-> dayDate, key |-> formatDateKey(dayDate)]>>)
           \o CalendarDaysFrom(i + 1, ws, today)
  ELSE <<>>

\* a TimeCell whose blockedId is the stored one in the lunch hour too
TimeCell_NoLunchOverride(day, slot, bm, bsk, nw) ==
  LET key == <<day.key, slot[1], slot[2]>>
  IN  [ key          |-> key,
        timeLabel    |-> formatTime(slot),
        date         |-> day.key,
        time         |-> slot,
        blockedId    |-> MapGet(bm, key),
        isBooked     |-> key \in bsk,
        isLunchBreak |-> isLunchBreakSlot(slot),
        isPast       |-> day.key * DaySecs + slot[1] * HourSecs + slot[2] * 60 < nw ]

\* lines 339-358: one TimeCell
TimeCell(day, slot, bm, bsk, nw) ==
  LET key          == <<day.key, slot[1], slot[2]>>
      blockedId    == MapGet(bm, key)
      isBooked     == key \in bsk
      isLunchBreak == isLunchBreakSlot(slot)
      slotDateTime == day.key * DaySecs + slot[1] * HourSecs + slot[2] * 60
      isPast       == slotDateTime < nw
  IN  [ key          |-> key,
        timeLabel    |-> formatTime(slot),
        date         |-> day.key,
        time         |-> slot,
        blockedId    |-> IF isLunchBreak THEN Some(-1) ELSE blockedId,
        isBooked     |-> isBooked,
        isLunchBreak |-> isLunchBreak,
        isPast       |-> isPast ]

\* a grid that keeps every time bucket
RowHasFuture_KeepAll(row) == Len(row) >= 0

RowHasFuture(row) == \E c \in DOMAIN row : ~row[c].isPast

\* lines 338-359: rows of cells, rows with only past cells dropped
CalendarRowsOf(days, bm, bsk, nw) ==
  SelectSeq(
    [r \in DOMAIN timeSlots |->
       [c \in DOMAIN days |-> TimeCell(days[c], timeSlots[r], bm, bsk, nw)]],
    RowHasFuture)

\* a grid that shows the five days of the week whatever today is
buildCalendar_AllDays(ws, bm, bsk, nw) ==
  LET days == CalendarDaysFrom(0, ws, ws)
  IN  [days |-> days, rows |-> CalendarRowsOf(days, bm, bsk, nw)]

\* buildCalendar(): the new calendarDays and calendarRows
buildCalendar(ws, bm, bsk, nw) ==
  LET days == CalendarDaysFrom(0, ws, getStartOfDay(nw))
  IN  [days |-> days, rows |-> CalendarRowsOf(days, bm, bsk, nw)]

\* if (cell.blockedId): undefined and 0 are falsy
Truthy(optId) == optId # None /\ optId[1] # 0

-----------------------------------------------------------------------------
(* Requests and responses; the backend as far as the admin view relies on it *)

\* A response: the body is a list (the created record's id for a POST);
\* out is "ok", "http" (non-2xx status) or "net" (fetch or
\* response.json() threw); detail is the error body's detail, if any.
OkResponse(body)     == [out |-> "ok",   detail |-> None, body |-> body]
HttpError(detail)    == [out |-> "http", detail |-> detail, body |-> <<>>]
NetFailure           == [out |-> "net",  detail |-> None, body |-> <<>>]
Failures == { HttpError(Some("detail from the server")), HttpError(None), NetFailure }

\* A failed GET of loadBlockedTimes, loadBookedAppointments or loadCalendar:
\* the !response.ok branch and the catch branch make the same assignments,
\* so one failure stands for both
GetFailures == { HttpError(None) }

\* A request a flow is waiting for: st is "none", "sent" or "served"
NoRequest       == [st |-> "none",   resp |-> None]
Sent            == [st |-> "sent",   resp |-> None]
Served(resp)    == [st |-> "served", resp |-> Some(resp)]

RECURSIVE BlocksById(_)
BlocksById(S) ==
  IF S = {} THEN <<>>
  ELSE LET m == CHOOSE x \in S : \A y \in S : x.id <= y.id
       IN  <<m>> \o BlocksById(S \ {m})

\* What a served request comes back as: the response the backend wrote, or
\* a failure (an error status, a dropped connection, an unreadable body).
\* Which one is settled when the response is delivered.
Outcomes(served, failures) == { served } \cup failures

\* GET /availability/blocked-times: the blocks held when it is served
BlockedTimesBody == OkResponse(BlocksById(srvBlocks))

\* GET /availability/appointments?admin_email=: the bookings held; those do
\* not change while the admin view is open, so the answer is the same
\* whenever the request is served
AppointmentsResponses == Outcomes(OkResponse(BlocksById(srvAppointments)), GetFailures)

-----------------------------------------------------------------------------
(* CreateAppointmentsComponent: the state after construction *)

NowInit == At(3, 9, 5)      \* Thursday 09:05

\* What the backend holds when the session starts: a block inside the lunch
\* hour of Thursday and one student's booking on Friday
LunchBlock  == [id |-> 1, start_time |-> At(3, 12, 0)]
Booking     == [id |-> 2, student_email |-> "pat@rhodes.edu",
                appointment_type |-> "testing", start_time |-> At(4, 10, 0),
                end_time |-> At(4, 10, 30), notes |-> None]

\* The cells the admin clicks on: a past one, a free one, a lunch one and
\* a booked one
ClickKeys == { <<3, 9, 0>>, <<3, 9, 15>>, <<3, 12, 0>>, <<4, 10, 0>> }

IdleToggle ==
  [pc |-> "idle", cell |-> None, op |-> "none", blockId |-> None,
   req |-> NoRequest, result |-> "none"]

InitAdminView ==
  /\ mounted = FALSE
  /\ weekStart = getWeekStart(now)
  /\ calendarDays = <<>>
  /\ calendarRows = <<>>
  /\ blockedTimes = <<>>
  /\ blockedMap = EmptyMap
  /\ bookedAppointments = <<>>
  /\ bookedSlotKeys = {}
  /\ adminMessage = ""
  /\ adminError = ""
  /\ isSaving = FALSE
  /\ autoRefreshTimer = FALSE
  /\ isDestroyed = FALSE
  /\ viewRefreshed = FALSE
  /\ toggles = [i \in 1..MaxAdminActions |-> IdleToggle]
  /\ toggleCount = 0
  /\ initBlocked = NoRequest
  /\ initBooked = NoRequest
  /\ polls = [i \in 1..MaxPolls |-> NoRequest]

\* the appointments of the student whose session the student views read
OwnFirst  == [id |-> 3, student_email |-> "sam@rhodes.edu",
              appointment_type |-> "counseling", start_time |-> At(4, 14, 0),
              end_time |-> At(4, 15, 0), notes |-> None]
OwnSecond == [id |-> 4, student_email |-> "sam@rhodes.edu",
              appointment_type |-> "testing", start_time |-> At(8, 9, 0),
              end_time |-> At(8, 9, 30), notes |-> Some("fasting")]

InitBackend ==
  /\ srvBlocks = { LunchBlock }
  /\ srvAppointments = { Booking, OwnFirst, OwnSecond }
  /\ srvNextId = 5

-----------------------------------------------------------------------------
(* CreateAppointmentsComponent: what a completed fetch does to the view *)

\* lines 225-228: later entries of the list overwrite earlier ones
RECURSIVE BlockedMapOf(_, _)
BlockedMapOf(list, map) ==
  IF list = <<>> THEN map
  ELSE BlockedMapOf(Tail(list),
                    MapSet(map, getSlotKey(Head(list).start_time), Head(list).id))

\* lines 266-279
RECURSIVE BookedSlotKeysOf(_)
BookedSlotKeysOf(list) ==
  IF list = <<>> THEN {}
  ELSE LET start == Head(list).start_time
           end   == Head(list).end_time
       IN  (IF end <= start THEN {} ELSE SeqToSet(getSlotKeysInRange(start, end)))
           \cup BookedSlotKeysOf(Tail(list))

\* this.buildCalendar() with the maps as they will be after the step
BuildCalendarWith(ws, bm, bsk) ==
  LET built == buildCalendar(ws, bm, bsk, now)
  IN  /\ calendarDays' = built.days
      /\ calendarRows' = built.rows

\* refreshView() without its test of isDestroyed
refreshView_Unguarded == viewRefreshed' = TRUE

\* lines 309-313
refreshView == viewRefreshed' = ~isDestroyed

\* a step of the component that does not call refreshView()
NoRefresh == viewRefreshed' = FALSE

\* a loadBlockedTimes that adds the response's entries to the map it finds
BlockedTimesArrive_Merge(resp) ==
  LET list == IF resp.out = "ok" THEN resp.body ELSE <<>>
      map  == BlockedMapOf(list, blockedMap)
  IN  /\ blockedTimes' = list
      /\ blockedMap' = map
      /\ BuildCalendarWith(weekStart, map, bookedSlotKeys)
      /\ refreshView

\* loadBlockedTimes(), from the response on (lines 216-237)
BlockedTimesArrive(resp) ==
  LET list == IF resp.out = "ok" THEN resp.body ELSE <<>>
      map  == BlockedMapOf(list, EmptyMap)
  IN  /\ blockedTimes' = list
      /\ blockedMap' = map
      /\ BuildCalendarWith(weekStart, map, bookedSlotKeys)
      /\ refreshView

\* a loadBookedAppointments that stores the keys and does not rebuild the grid
AppointmentsArrive_NoRebuild(resp) ==
  LET list == IF resp.out = "ok" THEN resp.body ELSE <<>>
  IN  /\ bookedAppointments' = list
      /\ bookedSlotKeys' = BookedSlotKeysOf(list)
      /\ UNCHANGED <<calendarDays, calendarRows>>
      /\ refreshView

\* loadBookedAppointments(), from the response on (lines 257-288)
AppointmentsArrive(resp) ==
  LET list == IF resp.out = "ok" THEN resp.body ELSE <<>>
      keys == BookedSlotKeysOf(list)
  IN  /\ bookedAppointments' = list
      /\ bookedSlotKeys' = keys
      /\ BuildCalendarWith(weekStart, blockedMap, keys)
      /\ refreshView

-----------------------------------------------------------------------------
(* CreateAppointmentsComponent: lifecycle and week paging *)

AdminLive == view = "admin" /\ mounted /\ ~isDestroyed

\* the user acts: a click or a navigation
UserActs == userActions < MaxAdminActions /\ userActions' = userActions + 1

\* requests of the view that await their response
InFlight ==
  Cardinality({ i \in DOMAIN toggles : toggles[i].req.st # "none" })
  + Cardinality({ i \in DOMAIN polls : polls[i].st # "none" })
  + (IF initBlocked.st # "none" THEN 1 ELSE 0)
  + (IF initBooked.st # "none" THEN 1 ELSE 0)

\* lines 86-95 (with loadBookedAppointments' non-admin branch, 241-247,
\* and startAutoRefresh, 291-300)
NgOnInit ==
  /\ view = "admin" /\ ~mounted
  /\ mounted' = TRUE
  /\ initBlocked' = Sent
  /\ IF role = "admin"
     THEN /\ initBooked' = Sent
          /\ BuildCalendarWith(weekStart, blockedMap, bookedSlotKeys)
          /\ autoRefreshTimer' = TRUE
          /\ NoRefresh
          /\ UNCHANGED <<bookedAppointments, bookedSlotKeys, adminError>>
     ELSE /\ bookedAppointments' = <<>>
          /\ bookedSlotKeys' = {}
          /\ BuildCalendarWith(weekStart, blockedMap, {})
          /\ refreshView
          /\ adminError' = "Only admins can block appointment times."
          /\ UNCHANGED <<initBooked, autoRefreshTimer>>
  /\ UNCHANGED <<envVars, notAdminVars, srvVars, weekStart, blockedTimes, blockedMap,
                 adminMessage, isSaving, isDestroyed, toggles, toggleCount, userActions,
                 polls>>

\* lines 97-100 (stopAutoRefresh, 302-307)
NgOnDestroy ==
  /\ AdminLive /\ UserActs
  /\ isDestroyed' = TRUE
  /\ autoRefreshTimer' = FALSE
  /\ NoRefresh
  /\ UNCHANGED <<envVars, notAdminVars, srvVars, mounted, weekStart, calendarDays,
                 calendarRows, blockedTimes, blockedMap, bookedAppointments,
                 bookedSlotKeys, adminMessage, adminError, isSaving, toggles,
                 toggleCount, initBlocked, initBooked, polls>>

WeekFrame ==
  /\ NoRefresh
  /\ UNCHANGED <<envVars, notAdminVars, srvVars, mounted, blockedTimes, blockedMap,
                 bookedAppointments, bookedSlotKeys, adminMessage, adminError,
                 isSaving, autoRefreshTimer, isDestroyed, toggles, toggleCount,
                 initBlocked, initBooked, polls>>

\* lines 102-107
previousWeek ==
  /\ AdminLive /\ UserActs
  /\ LET next == weekStart - 7 * DaySecs
     IN  /\ weekStart' = getWeekStart(next)
         /\ BuildCalendarWith(getWeekStart(next), blockedMap, bookedSlotKeys)
  /\ WeekFrame

\* lines 109-114
nextWeek ==
  /\ AdminLive /\ UserActs
  /\ LET next == weekStart + 7 * DaySecs
     IN  /\ weekStart' = getWeekStart(next)
         /\ BuildCalendarWith(getWeekStart(next), blockedMap, bookedSlotKeys)
  /\ WeekFrame

-----------------------------------------------------------------------------
(* CreateAppointmentsComponent: toggleBlocked *)

GridCells == UNION { SeqToSet(calendarRows[r]) : r \in DOMAIN calendarRows }

ToggleFrame ==
  /\ NoRefresh
  /\ UNCHANGED <<envVars, notAdminVars, srvVars, mounted, weekStart, calendarDays,
                 calendarRows, blockedTimes, blockedMap, bookedAppointments,
                 bookedSlotKeys, autoRefreshTimer, isDestroyed, initBlocked,
                 initBooked, polls>>

StartToggle(cell, pc) ==
  /\ InFlight < MaxInFlight
  /\ isSaving' = TRUE
  /\ adminError' = ""
  /\ adminMessage' = ""
  /\ toggleCount' = toggleCount + 1
  /\ toggles' = [toggles EXCEPT ![toggleCount + 1] =
         [pc     |-> pc,
          cell   |-> Some(cell),
          op     |-> IF Truthy(cell.blockedId) THEN "unblock" ELSE "block",
          blockId |-> IF Truthy(cell.blockedId) THEN cell.blockedId ELSE None,
          req    |-> Sent,
          result |-> "none"]]

\* toggleBlocked without the guard on booked cells
toggleBlocked_NoBookedGuard(cell) ==
  /\ ToggleFrame
  /\ IF role # "admin"
     THEN /\ adminError' = "Only admins can block appointment times."
          /\ UNCHANGED <<adminMessage, isSaving, toggles, toggleCount>>
     ELSE IF cell.isPast \/ cell.isLunchBreak
     THEN /\ adminMessage' = ""
          /\ adminError' = "Past time slots cannot be updated."
          /\ UNCHANGED <<isSaving, toggles, toggleCount>>
     ELSE StartToggle(cell, "mutate")

\* toggleBlocked that starts the reload without awaiting the POST / DELETE
toggleBlocked_RefetchFirst(cell) ==
  /\ ToggleFrame
  /\ IF role # "admin"
     THEN /\ adminError' = "Only admins can block appointment times."
          /\ UNCHANGED <<adminMessage, isSaving, toggles, toggleCount>>
     ELSE IF cell.isPast \/ cell.isBooked \/ cell.isLunchBreak
     THEN /\ adminMessage' = ""
          /\ adminError' = "Past time slots cannot be updated."
          /\ UNCHANGED <<isSaving, toggles, toggleCount>>
     ELSE StartToggle(cell, "loadBlockedTimes")

\* lines 116-142 and the first request of 144-153: the guards, then the
\* POST (blockTime) or DELETE (unblockTime) is sent
toggleBlocked(cell) ==
  /\ ToggleFrame
  /\ IF role # "admin"
     THEN /\ adminError' = "Only admins can block appointment times."
          /\ UNCHANGED <<adminMessage, isSaving, toggles, toggleCount>>
     ELSE IF cell.isPast
     THEN /\ adminMessage' = ""
          /\ adminError' = "Past time slots cannot be updated."
          /\ UNCHANGED <<isSaving, toggles, toggleCount>>
     ELSE IF cell.isBooked
     THEN /\ adminMessage' = ""
          /\ adminError' = "Booked appointment times cannot be blocked."
          /\ UNCHANGED <<isSaving, toggles, toggleCount>>
     ELSE IF cell.isLunchBreak
     THEN /\ adminMessage' = ""
          /\ adminError' = "12:00 PM to 1:00 PM is reserved for lunch and is always blocked."
          /\ UNCHANGED <<isSaving, toggles, toggleCount>>
     ELSE StartToggle(cell, "mutate")

\* A click on a cell of the grid as it is displayed
ClickCell ==
  /\ AdminLive /\ UserActs
  /\ \E cell \in GridCells : cell.key \in ClickKeys /\ toggleBlocked(cell)

\* Error(...).message of a failed blockTime / unblockTime (lines 182-185,
\* 196-199); a network failure carries the browser's own message
MutationErrorMessage(op, resp) ==
  IF resp.out = "net" THEN "Failed to fetch"
  ELSE IF resp.detail # None /\ resp.detail[1] # "" THEN resp.detail[1]
  ELSE IF op = "block" THEN "Unable to block time (HTTP 500)."
  ELSE "Unable to unblock time (HTTP 500)."

\* lines 146-157 after the await of the POST / DELETE, and the catch and
\* finally of 158-166 when it failed
ToggleMutationReturns(i) ==
  /\ toggles[i].pc = "mutate" /\ toggles[i].req.st = "served"
  /\ \E resp \in Outcomes(toggles[i].req.resp[1], Failures) :
     LET flow == toggles[i]
         cell == flow.cell[1]
     IN  IF resp.out = "ok"
         THEN LET map == IF flow.op = "unblock"
                         THEN MapDelete(blockedMap, cell.key)
                         ELSE MapSet(blockedMap, cell.key, resp.body[1])
              IN  /\ blockedMap' = map
                  /\ adminMessage' = IF flow.op = "unblock"
                                     THEN "is now available."
                                     ELSE "has been blocked."
                  /\ BuildCalendarWith(weekStart, map, bookedSlotKeys)
                  /\ toggles' = [toggles EXCEPT
                        ![i].pc = "loadBlockedTimes",
                        ![i].blockId = IF flow.op = "block" THEN Some(resp.body[1]) ELSE @,
                        ![i].req = Sent]
                  /\ UNCHANGED <<adminError, isSaving>>
         ELSE /\ adminError' = MutationErrorMessage(flow.op, resp)
              /\ isSaving' = FALSE
              /\ toggles' = [toggles EXCEPT ![i].pc = "done",
                                            ![i].req = NoRequest,
                                            ![i].result = "error"]
              /\ UNCHANGED <<blockedMap, adminMessage, calendarDays, calendarRows>>
  /\ NoRefresh
  /\ UNCHANGED <<envVars, notAdminVars, srvVars, mounted, weekStart, blockedTimes,
                 bookedAppointments, bookedSlotKeys, autoRefreshTimer,
                 isDestroyed, toggleCount, userActions, initBlocked, initBooked,
                 polls>>

\* line 156 after the await: loadBlockedTimes() ends, loadBookedAppointments()
\* sends its request (the caller is an admin)
ToggleBlockedTimesReturn(i) ==
  /\ toggles[i].pc = "loadBlockedTimes" /\ toggles[i].req.st = "served"
  /\ \E resp \in Outcomes(toggles[i].req.resp[1], GetFailures) : BlockedTimesArrive(resp)
  /\ toggles' = [toggles EXCEPT ![i].pc = "loadBookedAppointments", ![i].req = Sent]
  /\ UNCHANGED <<envVars, notAdminVars, srvVars, mounted, weekStart, bookedAppointments,
                 bookedSlotKeys, adminMessage, adminError, isSaving,
                 autoRefreshTimer, isDestroyed, toggleCount, userActions,
                 initBlocked, initBooked, polls>>

\* line 157 after the await, and the finally of 164-166
ToggleAppointmentsReturn(i) ==
  /\ toggles[i].pc = "loadBookedAppointments" /\ toggles[i].req.st = "sent"
  /\ \E resp \in AppointmentsResponses : AppointmentsArrive(resp)
  /\ isSaving' = FALSE
  /\ toggles' = [toggles EXCEPT ![i].pc = "done", ![i].req = NoRequest,
                                ![i].result = "ok"]
  /\ UNCHANGED <<envVars, notAdminVars, srvVars, mounted, weekStart, blockedTimes,
                 blockedMap, adminMessage, adminError, autoRefreshTimer,
                 isDestroyed, toggleCount, userActions, initBlocked, initBooked,
                 polls>>

-----------------------------------------------------------------------------
(* CreateAppointmentsComponent: the fetches of ngOnInit and of the timer *)

LoadFrame ==
  UNCHANGED <<envVars, notAdminVars, srvVars, mounted, weekStart, adminMessage,
              adminError, isSaving, autoRefreshTimer, isDestroyed, toggles,
              toggleCount, userActions>>

\* line 88: the loadBlockedTimes() of ngOnInit ends
InitBlockedTimesReturn ==
  /\ initBlocked.st = "served"
  /\ \E resp \in Outcomes(initBlocked.resp[1], GetFailures) : BlockedTimesArrive(resp)
  /\ initBlocked' = NoRequest
  /\ LoadFrame
  /\ UNCHANGED <<bookedAppointments, bookedSlotKeys, initBooked, polls>>

\* line 89: the loadBookedAppointments() of ngOnInit ends
InitAppointmentsReturn ==
  /\ initBooked.st = "sent"
  /\ \E resp \in AppointmentsResponses : AppointmentsArrive(resp)
  /\ initBooked' = NoRequest
  /\ LoadFrame
  /\ UNCHANGED <<blockedTimes, blockedMap, initBlocked, polls>>

\* lines 297-299: the interval fires and calls loadBookedAppointments()
\* (started only for an admin, so the request is sent)
PollTick(i) ==
  /\ view = "admin" /\ autoRefreshTimer /\ InFlight < MaxInFlight
  /\ polls[i].st = "none"
  /\ \A j \in 1..(i - 1) : polls[j].st # "none"
  /\ polls' = [polls EXCEPT ![i] = Sent]
  /\ NoRefresh
  /\ LoadFrame
  /\ UNCHANGED <<calendarDays, calendarRows, blockedTimes, blockedMap,
                 bookedAppointments, bookedSlotKeys, initBlocked, initBooked>>

\* a timer-started loadBookedAppointments() ends
PollReturn(i) ==
  /\ polls[i].st = "sent"
  /\ \E resp \in AppointmentsResponses : AppointmentsArrive(resp)
  /\ polls' = [polls EXCEPT ![i] = NoRequest]
  /\ LoadFrame
  /\ UNCHANGED <<blockedTimes, blockedMap, initBlocked, initBooked>>

-----------------------------------------------------------------------------
(* The backend answers the admin view's requests *)

ClientFrame ==
  UNCHANGED <<envVars, notAdminVars, mounted, weekStart, calendarDays, calendarRows,
              blockedTimes, blockedMap, bookedAppointments, bookedSlotKeys,
              adminMessage, adminError, isSaving, autoRefreshTimer, isDestroyed,
              viewRefreshed, toggleCount, userActions>>

\* POST /availability/slots {admin_email, date, time}: a new block at that
\* local date and time, unless one is there already (or the request is
\* refused for another reason)
ServeBlock(i) ==
  /\ toggles[i].pc = "mutate" /\ toggles[i].op = "block" /\ toggles[i].req.st = "sent"
  /\ LET cell  == toggles[i].cell[1]
         start == At(cell.date, cell.time[1], cell.time[2])
     IN  \/ /\ \A b \in srvBlocks : b.start_time # start
            /\ srvBlocks' = srvBlocks \cup {[id |-> srvNextId, start_time |-> start]}
            /\ srvNextId' = srvNextId + 1
            /\ toggles' = [toggles EXCEPT ![i].req = Served(OkResponse(<<srvNextId>>))]
         \/ /\ toggles' = [toggles EXCEPT ![i].req = Served(HttpError(None))]
            /\ UNCHANGED <<srvBlocks, srvNextId>>
  /\ ClientFrame
  /\ UNCHANGED <<srvAppointments, initBlocked, initBooked, polls>>

\* DELETE /availability/slots/{id}
ServeUnblock(i) ==
  /\ toggles[i].pc = "mutate" /\ toggles[i].op = "unblock" /\ toggles[i].req.st = "sent"
  /\ LET id == toggles[i].cell[1].blockedId[1]
     IN  \/ /\ \E b \in srvBlocks : b.id = id
            /\ srvBlocks' = { b \in srvBlocks : b.id # id }
            /\ toggles' = [toggles EXCEPT ![i].req = Served(OkResponse(<<>>))]
         \/ /\ toggles' = [toggles EXCEPT ![i].req = Served(HttpError(None))]
            /\ UNCHANGED srvBlocks
  /\ ClientFrame
  /\ UNCHANGED <<srvAppointments, srvNextId, initBlocked, initBooked, polls>>

\* GET /availability/blocked-times, asked by a toggle's reload
ServeToggleBlockedTimes(i) ==
  /\ toggles[i].pc = "loadBlockedTimes" /\ toggles[i].req.st = "sent"
  /\ toggles' = [toggles EXCEPT ![i].req = Served(BlockedTimesBody)]
  /\ ClientFrame
  /\ UNCHANGED <<srvVars, initBlocked, initBooked, polls>>

\* GET /availability/blocked-times, asked by ngOnInit
ServeInitBlockedTimes ==
  /\ initBlocked.st = "sent"
  /\ initBlocked' = Served(BlockedTimesBody)
  /\ ClientFrame
  /\ UNCHANGED <<srvVars, toggles, initBooked, polls>>

-----------------------------------------------------------------------------
NextAdmin ==
  \/ NgOnInit
  \/ NgOnDestroy
  \/ previousWeek
  \/ nextWeek
  \/ ClickCell
  \/ \E i \in 1..MaxAdminActions :
       \/ ServeBlock(i)
       \/ ServeUnblock(i)
       \/ ServeToggleBlockedTimes(i)
       \/ ToggleMutationReturns(i)
       \/ ToggleBlockedTimesReturn(i)
       \/ ToggleAppointmentsReturn(i)
  \/ ServeInitBlockedTimes
  \/ InitBlockedTimesReturn
  \/ InitAppointmentsReturn
  \/ \E i \in 1..MaxPolls : PollTick(i) \/ PollReturn(i)

-----------------------------------------------------------------------------
(* AvailabilityCalendarComponent (the revision with booking) *)

\* a week start without the Sunday case
getStartOfWeek_NoSundayCase(input) ==
  LET date == getStartOfDay(input)
  IN  date + (1 - getDay(date)) * DaySecs

\* lines 666-672
getStartOfWeek(input) ==
  LET date == getStartOfDay(input)
      day  == getDay(date)
      diffToMonday == IF day = 0 THEN -6 ELSE 1 - day
  IN  date + diffToMonday * DaySecs

\* matchesCriteria without the time-of-day test
matchesCriteria_AnyHour(c, slot) ==
  slot.appointment_type = c.selectedAppointmentType

\* lines 591-606
matchesCriteria(c, slot) ==
  IF slot.appointment_type # c.selectedAppointmentType THEN FALSE
  ELSE IF c.selectedTimeOfDay = "all" THEN TRUE
  ELSE LET hour == slot.time[1]
       IN  IF c.selectedTimeOfDay = "morning" THEN hour < 12 ELSE hour >= 12

\* lines 627-647
updateWeekView(c) ==
  LET start == c.currentWeekStart + (c.weekIndex * 7) * DaySecs
      dayDate(offset) == start + offset * DaySecs
      SlotsOn(dayKey) ==
        LET onDay(slot) == slot.date = dayKey
        IN  SelectSeq(c.filteredSlots, onDay)
  IN  [c EXCEPT
         !.visibleWeekDays =
            [i \in 1..7 |-> [key  |-> formatDateKey(dayDate(i - 1)),
                             date |-> dayDate(i - 1)]],
         !.visibleWeekSlotsByDay =
            [dayKey \in { formatDateKey(dayDate(o)) : o \in 0..6 } |-> SlotsOn(dayKey)]]

\* updateFilteredSlots that keeps the slots that are not available too
updateFilteredSlots_IgnoreAvailability(c) ==
  IF c.selectedAppointmentType = ""
  THEN [c EXCEPT !.filteredSlots = <<>>,
                 !.visibleWeekDays = <<>>,
                 !.visibleWeekSlotsByDay = EmptyMap]
  ELSE LET keep(slot) == matchesCriteria(c, slot)
       IN  updateWeekView([c EXCEPT !.filteredSlots = SelectSeq(c.slots, keep)])

\* lines 608-625
updateFilteredSlots(c) ==
  IF c.selectedAppointmentType = ""
  THEN [c EXCEPT !.filteredSlots = <<>>,
                 !.visibleWeekDays = <<>>,
                 !.visibleWeekSlotsByDay = EmptyMap]
  ELSE LET keep(slot) == slot.is_available /\ matchesCriteria(c, slot)
           filtered   == SelectSeq(c.slots, keep)
           staged     == c.selectedBookingSlot
           gone       == /\ staged # None
                         /\ ~\E i \in DOMAIN filtered :
                               filtered[i].start_time = staged[1].start_time
           c1 == [c EXCEPT !.filteredSlots = filtered]
           c2 == IF gone
                 THEN [c1 EXCEPT !.selectedBookingSlot = None, !.bookingNotes = ""]
                 ELSE c1
       IN  updateWeekView(c2)

\* lines 584-589
resetCalendar(c) ==
  [c EXCEPT !.slots = <<>>, !.filteredSlots = <<>>,
            !.visibleWeekDays = <<>>, !.visibleWeekSlotsByDay = EmptyMap]

\* lines 478-482
cancelBooking(c) ==
  [c EXCEPT !.selectedBookingSlot = None, !.bookingNotes = "", !.bookingError = ""]

\* lines 711-716
clearBookingState(c) ==
  [c EXCEPT !.selectedBookingSlot = None, !.bookingNotes = "",
            !.bookingError = "", !.confirmedBooking = None]

\* lines 550-559: loadCalendar() up to its fetch; the fetch is sent when
\* a type is selected
loadCalendarBegin(c) ==
  [c EXCEPT !.error = "", !.slots = <<>>, !.filteredSlots = <<>>]

RECURSIVE InsertByStart(_, _)
InsertByStart(slot, sorted) ==
  IF sorted = <<>> THEN <<slot>>
  ELSE IF slot.start_time < Head(sorted).start_time THEN <<slot>> \o sorted
  ELSE <<Head(sorted)>> \o InsertByStart(slot, Tail(sorted))

\* Array.sort by start instant (stable)
RECURSIVE SortByStart(_)
SortByStart(list) ==
  IF list = <<>> THEN <<>>
  ELSE InsertByStart(list[Len(list)], SortByStart(SubSeq(list, 1, Len(list) - 1)))

\* lines 569-581: loadCalendar() from the response on
loadCalendarEnd(c, resp) ==
  IF resp.out = "ok"
  THEN updateFilteredSlots([c EXCEPT !.slots = SortByStart(resp.body)])
  ELSE resetCalendar([c EXCEPT !.error = "Unable to load available slots right now."])


(* The backend's calendar and appointment endpoints *)

AppointmentTypes == { "testing", "counseling" }

\* start instants the calendar endpoint reports, in the order of its body
CalendarStarts == << At(7, 13, 0), At(4, 14, 0), At(4, 10, 0), At(4, 11, 0) >>

\* GET /api/availability/calendar?days=14&appointment_type=...
CalendarSlot(start, type) ==
  [date             |-> formatDateKey(start),
   time             |-> << (start % DaySecs) \div HourSecs, (start % HourSecs) \div 60 >>,
   appointment_type |-> type,
   start_time       |-> start,
   is_available     |-> /\ \A a \in srvAppointments : a.start_time # start
                        /\ \A b \in srvBlocks : b.start_time # start]

CalendarBody(type) ==
  [i \in DOMAIN CalendarStarts |-> CalendarSlot(CalendarStarts[i], type)]

NewAppointment(email, type, start, notes) ==
  [id |-> srvNextId, student_email |-> email, appointment_type |-> type,
   start_time |-> start, end_time |-> start + HourSecs \div 2, notes |-> notes]

-----------------------------------------------------------------------------
(* AvailabilityCalendarComponent: state after construction *)

InitCal ==
  [currentWeekStart        |-> getStartOfWeek(now),
   slots                   |-> <<>>,
   filteredSlots           |-> <<>>,
   visibleWeekDays         |-> <<>>,
   visibleWeekSlotsByDay   |-> EmptyMap,
   error                   |-> "",
   weekIndex               |-> 0,
   selectedTimeOfDay       |-> "all",
   selectedAppointmentType |-> "",
   selectedBookingSlot     |-> None,
   bookingNotes            |-> "",
   bookingError            |-> "",
   confirmedBooking        |-> None,
   isBooking               |-> FALSE]

IdleLoad == [type |-> "", req |-> NoRequest]

IdleBooking ==
  [pc |-> "idle", start_time |-> None, type |-> "", savedWeekIndex |-> None,
   appointment |-> None, posts |-> 0, reloads |-> 0, req |-> NoRequest,
   result |-> "none"]

InitAvailView ==
  /\ cal = InitCal
  /\ calLoads = [i \in 1..MaxInFlight |-> IdleLoad]
  /\ bookings = [i \in 1..MaxAvailActions |-> IdleBooking]
  /\ bookingCount = 0

AvailLive == view = "availability"

AvailActs == userActions < MaxAvailActions /\ userActions' = userActions + 1

AvailInFlight ==
  Cardinality({ i \in DOMAIN calLoads : calLoads[i].req.st # "none" })
  + Cardinality({ i \in DOMAIN bookings : bookings[i].req.st # "none" })

AvailFrame == UNCHANGED <<envVars, notAvailVars, srvVars>>

\* lines 435-439; the select's two-way binding has stored the chosen type
onAppointmentTypeChange(type) ==
  LET c0 == [cal EXCEPT !.selectedAppointmentType = type, !.weekIndex = 0]
      c1 == loadCalendarBegin(clearBookingState(c0))
  IN  /\ cal' = c1
      /\ IF type = ""
         THEN UNCHANGED calLoads
         ELSE /\ AvailInFlight < MaxInFlight
              /\ LET i == CHOOSE k \in DOMAIN calLoads :
                            /\ calLoads[k].req.st = "none"
                            /\ \A m \in DOMAIN calLoads :
                                 calLoads[m].req.st = "none" => k <= m
                 IN  calLoads' = [calLoads EXCEPT ![i] = [type |-> type, req |-> Sent]]
      /\ UNCHANGED <<bookings, bookingCount>>
      /\ AvailFrame

ChangeAppointmentType ==
  AvailLive /\ AvailActs /\ \E type \in AppointmentTypes \cup {""} :
    type # cal.selectedAppointmentType /\ onAppointmentTypeChange(type)

\* lines 441-443; the select's two-way binding has stored the chosen filter
onTimeOfDayChange(filter) ==
  /\ cal' = updateFilteredSlots([cal EXCEPT !.selectedTimeOfDay = filter])
  /\ UNCHANGED <<calLoads, bookings, bookingCount>>
  /\ AvailFrame

ChangeTimeOfDay ==
  AvailLive /\ AvailActs /\ \E filter \in {"all", "morning", "afternoon"} :
    filter # cal.selectedTimeOfDay /\ onTimeOfDayChange(filter)

\* a showNextWeek without the canShowNextWeek test, one week further each time
showNextWeek_Unguarded ==
  /\ AvailLive /\ AvailActs
  /\ cal' = updateWeekView([cal EXCEPT !.weekIndex = cal.weekIndex + 1])
  /\ UNCHANGED <<calLoads, bookings, bookingCount>>
  /\ AvailFrame

\* lines 445-452
showNextWeek ==
  /\ AvailLive /\ AvailActs
  /\ cal' = IF cal.weekIndex # 0 THEN cal ELSE updateWeekView([cal EXCEPT !.weekIndex = 1])
  /\ UNCHANGED <<calLoads, bookings, bookingCount>>
  /\ AvailFrame

\* lines 454-461
showCurrentWeek ==
  /\ AvailLive /\ AvailActs
  /\ cal' = IF cal.weekIndex # 1 THEN cal ELSE updateWeekView([cal EXCEPT !.weekIndex = 0])
  /\ UNCHANGED <<calLoads, bookings, bookingCount>>
  /\ AvailFrame

\* the slots the week view displays
DisplayedSlots ==
  UNION { SeqToSet(cal.visibleWeekSlotsByDay[k]) : k \in DOMAIN cal.visibleWeekSlotsByDay }

\* a beginBooking without its test of the role
beginBooking_AnyRole(slot) ==
  /\ cal' = [cal EXCEPT !.selectedBookingSlot = Some(slot), !.bookingNotes = "",
                        !.bookingError = "", !.confirmedBooking = None]
  /\ UNCHANGED <<calLoads, bookings, bookingCount>>
  /\ AvailFrame

\* lines 467-476
beginBooking(slot) ==
  /\ cal' = IF role # "user" THEN cal
            ELSE [cal EXCEPT !.selectedBookingSlot = Some(slot), !.bookingNotes = "",
                             !.bookingError = "", !.confirmedBooking = None]
  /\ UNCHANGED <<calLoads, bookings, bookingCount>>
  /\ AvailFrame

ClickSlot == AvailLive /\ AvailActs /\ \E slot \in DisplayedSlots : beginBooking(slot)

\* lines 478-482, from the Cancel button of the booking form
ClickCancelBooking ==
  /\ AvailLive /\ AvailActs
  /\ cal.selectedBookingSlot # None
  /\ cal' = cancelBooking(cal)
  /\ UNCHANGED <<calLoads, bookings, bookingCount>>
  /\ AvailFrame

\* lines 484-505: submitBooking() up to the await of its POST
submitBooking ==
  /\ AvailLive /\ AvailActs
  /\ IF cal.selectedBookingSlot = None \/ cal.selectedAppointmentType = ""
     THEN UNCHANGED <<cal, bookings, bookingCount>>
     ELSE /\ AvailInFlight < MaxInFlight
          /\ cal' = [cal EXCEPT !.isBooking = TRUE, !.bookingError = "",
                                !.confirmedBooking = None]
          /\ bookingCount' = bookingCount + 1
          /\ bookings' = [bookings EXCEPT ![bookingCount + 1] =
                 [IdleBooking EXCEPT
                    !.pc = "post",
                    !.start_time = Some(cal.selectedBookingSlot[1].start_time),
                    !.type = cal.selectedAppointmentType,
                    !.posts = 1,
                    !.req = Sent]]
  /\ UNCHANGED calLoads
  /\ AvailFrame

\* lines 507-510 and 520-525
BookingErrorMessage(resp) ==
  IF resp.out = "net" THEN "Failed to fetch"
  ELSE IF resp.detail # None /\ resp.detail[1] # "" THEN resp.detail[1]
  ELSE "Unable to book appointment (HTTP 500)."

\* submitBooking() after its loadCalendar(), without line 515
submitBookingEnd_NoWeekRestore(c, flow) ==
  LET c2 == cancelBooking([updateWeekView(c) EXCEPT !.confirmedBooking = flow.appointment])
  IN  [c2 EXCEPT !.isBooking = FALSE]

\* lines 515-519 and 526-528: submitBooking() after its loadCalendar()
submitBookingEnd(c, flow) ==
  LET c1 == updateWeekView([c EXCEPT !.weekIndex = flow.savedWeekIndex[1]])
      c2 == cancelBooking([c1 EXCEPT !.confirmedBooking = flow.appointment])
  IN  [c2 EXCEPT !.isBooking = FALSE]

\* a submitBooking() that sends its POST again when it failed
BookingPostReturns_Retry(i) ==
  /\ bookings[i].pc = "post" /\ bookings[i].req.st = "served"
  /\ bookings' = [bookings EXCEPT ![i].posts = @ + 1, ![i].req = Sent]
  /\ UNCHANGED <<cal, calLoads, bookingCount, userActions>>
  /\ AvailFrame

\* lines 507-514 after the await of the POST: on failure the catch and the
\* finally; on success loadCalendar() up to its fetch, and the rest of
\* submitBooking() when loadCalendar() returns without fetching
BookingPostReturns(i) ==
  /\ bookings[i].pc = "post" /\ bookings[i].req.st = "served"
  /\ \E resp \in Outcomes(bookings[i].req.resp[1], Failures) :
       IF resp.out = "ok"
       THEN LET flow == [bookings[i] EXCEPT !.savedWeekIndex = Some(cal.weekIndex),
                                            !.appointment = Some(resp.body[1])]
                c1   == loadCalendarBegin(cal)
            IN  IF cal.selectedAppointmentType = ""
                THEN /\ cal' = submitBookingEnd(c1, flow)
                     /\ bookings' = [bookings EXCEPT ![i] =
                           [flow EXCEPT !.pc = "done", !.req = NoRequest, !.result = "ok"]]
                ELSE /\ cal' = c1
                     /\ bookings' = [bookings EXCEPT ![i] =
                           [flow EXCEPT !.pc = "loadCalendar",
                                        !.type = cal.selectedAppointmentType,
                                        !.reloads = 1,
                                        !.req = Sent]]
       ELSE /\ cal' = [cal EXCEPT !.bookingError = BookingErrorMessage(resp),
                                  !.isBooking = FALSE]
            /\ bookings' = [bookings EXCEPT ![i].pc = "done", ![i].req = NoRequest,
                                            ![i].result = "error"]
  /\ UNCHANGED <<calLoads, bookingCount, userActions>>
  /\ AvailFrame

\* lines 569-581 of the loadCalendar() called by submitBooking(), then
\* lines 515-519 and 526-528
BookingReloadReturns(i) ==
  /\ bookings[i].pc = "loadCalendar" /\ bookings[i].req.st = "served"
  /\ \E resp \in Outcomes(bookings[i].req.resp[1], GetFailures) :
       cal' = submitBookingEnd(loadCalendarEnd(cal, resp), bookings[i])
  /\ bookings' = [bookings EXCEPT ![i].pc = "done", ![i].req = NoRequest,
                                  ![i].result = "ok"]
  /\ UNCHANGED <<calLoads, bookingCount, userActions>>
  /\ AvailFrame

\* lines 569-581 of the loadCalendar() called by onAppointmentTypeChange()
CalendarReturns(i) ==
  /\ calLoads[i].req.st = "served"
  /\ \E resp \in Outcomes(calLoads[i].req.resp[1], GetFailures) :
       cal' = loadCalendarEnd(cal, resp)
  /\ calLoads' = [calLoads EXCEPT ![i] = IdleLoad]
  /\ UNCHANGED <<bookings, bookingCount, userActions>>
  /\ AvailFrame

AvailClientFrame == UNCHANGED <<envVars, notAvailVars, cal, bookingCount, userActions>>

\* GET /api/availability/calendar for onAppointmentTypeChange()
ServeCalendar(i) ==
  /\ view = "availability" /\ calLoads[i].req.st = "sent"
  /\ calLoads' = [calLoads EXCEPT ![i].req = Served(OkResponse(CalendarBody(calLoads[i].type)))]
  /\ UNCHANGED <<srvVars, bookings>>
  /\ AvailClientFrame

\* GET /api/availability/calendar for submitBooking()
ServeBookingReload(i) ==
  /\ bookings[i].pc = "loadCalendar" /\ bookings[i].req.st = "sent"
  /\ bookings' = [bookings EXCEPT ![i].req = Served(OkResponse(CalendarBody(bookings[i].type)))]
  /\ UNCHANGED <<srvVars, calLoads>>
  /\ AvailClientFrame

\* POST /api/availability/appointments: the start must be free
ServeBooking(i) ==
  /\ bookings[i].pc = "post" /\ bookings[i].req.st = "sent"
  /\ LET start == bookings[i].start_time[1]
         appt  == NewAppointment(sessionEmail, bookings[i].type, start, None)
     IN  IF /\ \A a \in srvAppointments : a.start_time # start
            /\ \A b \in srvBlocks : b.start_time # start
         THEN /\ srvAppointments' = srvAppointments \cup {appt}
              /\ srvNextId' = srvNextId + 1
              /\ bookings' = [bookings EXCEPT ![i].req = Served(OkResponse(<<appt>>))]
         ELSE /\ bookings' = [bookings EXCEPT ![i].req =
                    Served(HttpError(Some("That time is no longer available.")))]
              /\ UNCHANGED <<srvAppointments, srvNextId>>
  /\ UNCHANGED <<srvBlocks, calLoads>>
  /\ AvailClientFrame

NextAvail ==
  \/ ChangeAppointmentType
  \/ ChangeTimeOfDay
  \/ showNextWeek
  \/ showCurrentWeek
  \/ ClickSlot
  \/ ClickCancelBooking
  \/ submitBooking
  \/ \E i \in 1..MaxInFlight : ServeCalendar(i) \/ CalendarReturns(i)
  \/ \E i \in 1..MaxAvailActions :
       \/ ServeBooking(i) \/ ServeBookingReload(i)
       \/ BookingPostReturns(i) \/ BookingReloadReturns(i)

-----------------------------------------------------------------------------
(* MyAppointmentsComponent *)

InitMine ==
  [appointments                 |-> <<>>,
   isLoading                    |-> TRUE,
   cancelingAppointmentId       |-> None,
   reschedulingAppointmentId    |-> None,
   reschedulePanelAppointmentId |-> None,
   isLoadingRescheduleOptions   |-> FALSE,
   rescheduleOptions            |-> <<>>,
   selectedRescheduleStartTime  |-> None,
   successMessage               |-> "",
   error                        |-> "",
   saveError                    |-> "",
   saveSuccess                  |-> "",
   editingAppointmentId         |-> None,
   savingAppointmentId          |-> None,
   draftNotesById               |-> EmptyMap]

\* a call that awaits a response: kind is "options", "reschedule", "cancel"
\* or "notes"; id the appointment's id; arg what the request carries
IdleOp ==
  [kind |-> "none", id |-> None, arg |-> None, appointment |-> None,
   req |-> NoRequest, result |-> "none"]

InitMineView ==
  /\ mine = InitMine
  /\ mineMounted = FALSE
  /\ mineLoad = NoRequest
  /\ mineOps = [i \in 1..MaxMineActions |-> IdleOp]
  /\ mineOpCount = 0

MineLive == view = "mine" /\ mineMounted

MineActs == userActions < MaxMineActions /\ userActions' = userActions + 1

MineInFlight ==
  Cardinality({ i \in DOMAIN mineOps : mineOps[i].req.st # "none" })
  + (IF mineLoad.st # "none" THEN 1 ELSE 0)

MineFrame == UNCHANGED <<envVars, notMineVars, srvVars>>

\* starts a call that awaits a response
StartOp(kind, id, arg, appointment) ==
  /\ MineInFlight < MaxInFlight
  /\ mineOpCount' = mineOpCount + 1
  /\ mineOps' = [mineOps EXCEPT ![mineOpCount + 1] =
        [kind |-> kind, id |-> Some(id), arg |-> arg, appointment |-> appointment,
         req |-> Sent, result |-> "none"]]

\* the catch branches: an Error's message, here the one thrown at
\* !response.ok or the one fetch() rejects with
ErrorMessage(resp, generic) ==
  IF resp.out = "net" THEN "Failed to fetch"
  ELSE IF resp.detail # None /\ resp.detail[1] # "" THEN resp.detail[1]
  ELSE generic

\* lines 64-66 and 288-299
MineNgOnInit ==
  /\ view = "mine" /\ ~mineMounted
  /\ mineMounted' = TRUE
  /\ IF role # "user"
     THEN /\ mine' = [mine EXCEPT
                 !.error = "My Appointments is only available for student accounts.",
                 !.isLoading = FALSE]
          /\ UNCHANGED mineLoad
     ELSE /\ mineLoad' = Sent
          /\ UNCHANGED mine
  /\ UNCHANGED <<mineOps, mineOpCount, userActions>>
  /\ MineFrame

\* lines 301-316
MineLoadReturns ==
  /\ mineLoad.st = "served"
  /\ \E resp \in Outcomes(mineLoad.resp[1], Failures) :
       mine' = IF resp.out = "ok"
               THEN [mine EXCEPT !.appointments = resp.body, !.isLoading = FALSE]
               ELSE [mine EXCEPT
                       !.error = ErrorMessage(resp, "Unable to load appointments (HTTP 500)."),
                       !.isLoading = FALSE]
  /\ mineLoad' = NoRequest
  /\ UNCHANGED <<mineMounted, mineOps, mineOpCount, userActions>>
  /\ MineFrame

\* lines 141-146
closeReschedulePanel(m) ==
  [m EXCEPT !.reschedulePanelAppointmentId = None,
            !.isLoadingRescheduleOptions = FALSE,
            !.rescheduleOptions = <<>>,
            !.selectedRescheduleStartTime = None]

\* the appointments the list shows
ListedAppointments == SeqToSet(mine.appointments)

\* lines 73-94: openReschedulePanel() up to the await of its fetch
openReschedulePanel(appointment) ==
  IF role # "user"
  THEN UNCHANGED <<mine, mineOps, mineOpCount>>
  ELSE IF mine.reschedulePanelAppointmentId = Some(appointment.id)
  THEN /\ mine' = closeReschedulePanel(mine)
       /\ UNCHANGED <<mineOps, mineOpCount>>
  ELSE /\ mine' = [mine EXCEPT !.reschedulePanelAppointmentId = Some(appointment.id),
                               !.isLoadingRescheduleOptions = TRUE,
                               !.rescheduleOptions = <<>>,
                               !.selectedRescheduleStartTime = None,
                               !.error = "",
                               !.successMessage = ""]
       /\ StartOp("options", appointment.id, None, Some(appointment))

ClickReschedule ==
  /\ MineLive /\ MineActs
  /\ \E appointment \in ListedAppointments : openReschedulePanel(appointment)
  /\ UNCHANGED <<mineMounted, mineLoad>>
  /\ MineFrame

\* lines 106-122: the groups by local date, ordered by date, each ordered
\* by start
RECURSIVE RescheduleGroups(_, _)
RescheduleGroups(keys, availableSlots) ==
  IF keys = {} THEN <<>>
  ELSE LET k == CHOOSE x \in keys : \A y \in keys : x <= y
           onDay(slot) == formatDateKey(slot.start_time) = k
       IN  << [dateKey |-> k, slots |-> SortByStart(SelectSeq(availableSlots, onDay))] >>
           \o RescheduleGroups(keys \ {k}, availableSlots)

\* the filter of lines 100-104 without its comparison to the appointment's
\* own start
AvailableSlotsFor_KeepCurrent(appointment, allSlots) ==
  LET keep(slot) == slot.is_available
  IN  SelectSeq(allSlots, keep)

\* lines 100-104
AvailableSlotsFor(appointment, allSlots) ==
  LET keep(slot) == slot.is_available /\ slot.start_time # appointment.start_time
  IN  SelectSeq(allSlots, keep)

\* lines 95-138: openReschedulePanel() from the response on
openReschedulePanelEnd(m, appointment, resp) ==
  IF resp.out = "ok"
  THEN LET availableSlots == AvailableSlotsFor(appointment, resp.body)
           keys == { formatDateKey(availableSlots[i].start_time) : i \in DOMAIN availableSlots }
       IN  [m EXCEPT
              !.rescheduleOptions = RescheduleGroups(keys, availableSlots),
              !.selectedRescheduleStartTime =
                 IF Len(availableSlots) > 0
                 THEN Some(SortByStart(availableSlots)[1].start_time)
                 ELSE @,
              !.isLoadingRescheduleOptions = FALSE]
  ELSE [m EXCEPT
          !.error = ErrorMessage(resp, "Unable to load available times (HTTP 500)."),
          !.isLoadingRescheduleOptions = FALSE]

OptionsReturn(i) ==
  /\ mineOps[i].kind = "options" /\ mineOps[i].req.st = "served"
  /\ \E resp \in Outcomes(mineOps[i].req.resp[1], Failures) :
       /\ mine' = openReschedulePanelEnd(mine, mineOps[i].appointment[1], resp)
       /\ mineOps' = [mineOps EXCEPT ![i].req = NoRequest,
                                     ![i].result = IF resp.out = "ok" THEN "ok" ELSE "error"]
  /\ UNCHANGED <<mineMounted, mineLoad, mineOpCount, userActions>>
  /\ MineFrame

\* lines 141-146, from the picker's close button
ClickClosePanel ==
  /\ MineLive /\ MineActs
  /\ mine.reschedulePanelAppointmentId # None
  /\ mine' = closeReschedulePanel(mine)
  /\ UNCHANGED <<mineMounted, mineLoad, mineOps, mineOpCount>>
  /\ MineFrame

\* the start instants the picker offers
OfferedStarts ==
  UNION { { g.slots[j].start_time : j \in DOMAIN g.slots } : g \in SeqToSet(mine.rescheduleOptions) }

\* lines 148-150
selectRescheduleTime(startTime) ==
  /\ mine' = [mine EXCEPT !.selectedRescheduleStartTime = Some(startTime)]
  /\ UNCHANGED <<mineMounted, mineLoad, mineOps, mineOpCount>>
  /\ MineFrame

ClickRescheduleTime ==
  MineLive /\ MineActs /\ \E startTime \in OfferedStarts :
    mine.selectedRescheduleStartTime # Some(startTime) /\ selectRescheduleTime(startTime)

\* lines 152-171: confirmReschedule() up to the await of its PATCH
confirmReschedule(appointment) ==
  IF role # "user" \/ mine.selectedRescheduleStartTime = None
  THEN UNCHANGED <<mine, mineOps, mineOpCount>>
  ELSE /\ mine' = [mine EXCEPT !.reschedulingAppointmentId = Some(appointment.id),
                               !.error = "", !.successMessage = ""]
       /\ StartOp("reschedule", appointment.id, mine.selectedRescheduleStartTime, None)

\* the confirm button sits in the open picker of its appointment
ClickConfirmReschedule ==
  /\ MineLive /\ MineActs
  /\ \E appointment \in ListedAppointments :
       /\ mine.reschedulePanelAppointmentId = Some(appointment.id)
       /\ confirmReschedule(appointment)
  /\ UNCHANGED <<mineMounted, mineLoad>>
  /\ MineFrame

\* line 180
ReplaceById(list, updated) ==
  [i \in DOMAIN list |-> IF list[i].id = updated.id THEN updated ELSE list[i]]

\* confirmReschedule() without the sort of line 181
confirmRescheduleEnd_NoSort(m, resp) ==
  IF resp.out = "ok"
  THEN LET m1 == [m EXCEPT !.appointments = ReplaceById(@, resp.body[1])]
           m2 == closeReschedulePanel(m1)
       IN  [m2 EXCEPT !.successMessage = "Appointment rescheduled.",
                      !.reschedulingAppointmentId = None]
  ELSE [m EXCEPT
          !.error = ErrorMessage(resp, "Unable to reschedule appointment (HTTP 500)."),
          !.reschedulingAppointmentId = None]

\* lines 173-193
confirmRescheduleEnd(m, resp) ==
  IF resp.out = "ok"
  THEN LET m1 == [m EXCEPT !.appointments = SortByStart(ReplaceById(@, resp.body[1]))]
           m2 == closeReschedulePanel(m1)
       IN  [m2 EXCEPT !.successMessage = "Appointment rescheduled.",
                      !.reschedulingAppointmentId = None]
  ELSE [m EXCEPT
          !.error = ErrorMessage(resp, "Unable to reschedule appointment (HTTP 500)."),
          !.reschedulingAppointmentId = None]

\* lines 196-211: cancelAppointment() up to the await of its DELETE
cancelAppointment(appointmentId) ==
  IF role # "user"
  THEN UNCHANGED <<mine, mineOps, mineOpCount>>
  ELSE /\ mine' = [mine EXCEPT !.cancelingAppointmentId = Some(appointmentId),
                               !.error = "", !.successMessage = ""]
       /\ StartOp("cancel", appointmentId, None, None)

ClickCancelAppointment ==
  /\ MineLive /\ MineActs
  /\ \E appointment \in ListedAppointments : cancelAppointment(appointment.id)
  /\ UNCHANGED <<mineMounted, mineLoad>>
  /\ MineFrame

\* cancelAppointment() without its finally block
cancelAppointmentEnd_NoFinally(m, appointmentId, resp) ==
  IF resp.out = "ok"
  THEN LET keep(appointment) == appointment.id # appointmentId
       IN  [m EXCEPT !.appointments = SelectSeq(@, keep),
                     !.successMessage = "Appointment canceled."]
  ELSE [m EXCEPT !.error = ErrorMessage(resp, "Unable to cancel appointment (HTTP 500).")]

\* cancelAppointment() that drops the entry whatever the DELETE returned
cancelAppointmentEnd_RemoveAlways(m, appointmentId, resp) ==
  LET keep(appointment) == appointment.id # appointmentId
  IN  IF resp.out = "ok"
      THEN [m EXCEPT !.appointments = SelectSeq(@, keep),
                     !.successMessage = "Appointment canceled.",
                     !.cancelingAppointmentId = None]
      ELSE [m EXCEPT
              !.appointments = SelectSeq(@, keep),
              !.error = ErrorMessage(resp, "Unable to cancel appointment (HTTP 500)."),
              !.cancelingAppointmentId = None]

\* lines 213-229
cancelAppointmentEnd(m, appointmentId, resp) ==
  IF resp.out = "ok"
  THEN LET keep(appointment) == appointment.id # appointmentId
       IN  [m EXCEPT !.appointments = SelectSeq(@, keep),
                     !.successMessage = "Appointment canceled.",
                     !.cancelingAppointmentId = None]
  ELSE [m EXCEPT
          !.error = ErrorMessage(resp, "Unable to cancel appointment (HTTP 500)."),
          !.cancelingAppointmentId = None]

\* lines 232-237
startEditing(appointment) ==
  /\ mine' = [mine EXCEPT
        !.editingAppointmentId = Some(appointment.id),
        !.saveError = "", !.saveSuccess = "",
        !.draftNotesById = MapSet(@, appointment.id,
             IF appointment.notes = None THEN "" ELSE appointment.notes[1])]
  /\ UNCHANGED <<mineMounted, mineLoad, mineOps, mineOpCount>>
  /\ MineFrame

ClickEditNotes ==
  MineLive /\ MineActs /\ \E appointment \in ListedAppointments :
    mine.editingAppointmentId # Some(appointment.id) /\ startEditing(appointment)

\* lines 239-242
cancelEditing ==
  /\ MineLive /\ MineActs
  /\ mine.editingAppointmentId # None
  /\ mine' = [mine EXCEPT !.editingAppointmentId = None, !.saveError = ""]
  /\ UNCHANGED <<mineMounted, mineLoad, mineOps, mineOpCount>>
  /\ MineFrame

\* what the student types into the notes box
NoteTexts == { "", "bring insurance card" }

\* lines 244-246
updateDraftNotes(appointmentId, value) ==
  /\ mine' = [mine EXCEPT !.draftNotesById = MapSet(@, appointmentId, value)]
  /\ UNCHANGED <<mineMounted, mineLoad, mineOps, mineOpCount>>
  /\ MineFrame

\* the notes box belongs to the appointment being edited
TypeNotes ==
  /\ MineLive /\ MineActs
  /\ mine.editingAppointmentId # None
  /\ \E value \in NoteTexts :
       /\ MapGet(mine.draftNotesById, mine.editingAppointmentId[1]) # Some(value)
       /\ updateDraftNotes(mine.editingAppointmentId[1], value)

\* lines 248-263: saveNotes() up to the await of its PATCH
saveNotes(appointment) ==
  LET draft == MapGet(mine.draftNotesById, appointment.id)
  IN  /\ mine' = [mine EXCEPT !.savingAppointmentId = Some(appointment.id),
                              !.saveError = "", !.saveSuccess = ""]
      /\ StartOp("notes", appointment.id,
                 Some(IF draft = None THEN "" ELSE draft[1]), None)

\* the save button belongs to the appointment being edited
ClickSaveNotes ==
  /\ MineLive /\ MineActs
  /\ \E appointment \in ListedAppointments :
       /\ mine.editingAppointmentId = Some(appointment.id)
       /\ saveNotes(appointment)
  /\ UNCHANGED <<mineMounted, mineLoad>>
  /\ MineFrame

\* saveNotes() whose map() returns the response for every entry
saveNotesEnd_ReplaceAll(m, resp) ==
  IF resp.out = "ok"
  THEN [m EXCEPT !.appointments = [i \in DOMAIN @ |-> resp.body[1]],
                 !.editingAppointmentId = None,
                 !.saveSuccess = "Appointment notes updated.",
                 !.savingAppointmentId = None]
  ELSE [m EXCEPT
          !.saveError = ErrorMessage(resp, "Unable to update notes (HTTP 500)."),
          !.savingAppointmentId = None]

\* a saveNotes that adds the updated appointment when the list does not hold it
saveNotesEnd_Upsert(m, resp) ==
  IF resp.out = "ok"
  THEN [m EXCEPT !.appointments =
                    IF \E k \in DOMAIN @ : @[k].id = resp.body[1].id
                    THEN ReplaceById(@, resp.body[1])
                    ELSE Append(@, resp.body[1]),
                 !.editingAppointmentId = None,
                 !.saveSuccess = "Appointment notes updated.",
                 !.savingAppointmentId = None]
  ELSE [m EXCEPT
          !.saveError = ErrorMessage(resp, "Unable to update notes (HTTP 500)."),
          !.savingAppointmentId = None]

\* lines 265-285
saveNotesEnd(m, resp) ==
  IF resp.out = "ok"
  THEN [m EXCEPT !.appointments = ReplaceById(@, resp.body[1]),
                 !.editingAppointmentId = None,
                 !.saveSuccess = "Appointment notes updated.",
                 !.savingAppointmentId = None]
  ELSE [m EXCEPT
          !.saveError = ErrorMessage(resp, "Unable to update notes (HTTP 500)."),
          !.savingAppointmentId = None]

\* the continuation of a confirmReschedule(), cancelAppointment() or
\* saveNotes() call after its await
MutationReturns(i) ==
  /\ mineOps[i].kind \in {"reschedule", "cancel", "notes"}
  /\ mineOps[i].req.st = "served"
  /\ \E resp \in Outcomes(mineOps[i].req.resp[1], Failures) :
       /\ mine' = CASE mineOps[i].kind = "reschedule" -> confirmRescheduleEnd(mine, resp)
                    [] mineOps[i].kind = "cancel" ->
                         cancelAppointmentEnd(mine, mineOps[i].id[1], resp)
                    [] OTHER -> saveNotesEnd(mine, resp)
       /\ mineOps' = [mineOps EXCEPT ![i].req = NoRequest,
                                     ![i].result = IF resp.out = "ok" THEN "ok" ELSE "error"]
  /\ UNCHANGED <<mineMounted, mineLoad, mineOpCount, userActions>>
  /\ MineFrame

(* The backend's endpoints for a student's own appointments *)

MineClientFrame ==
  UNCHANGED <<envVars, notMineVars, mine, mineMounted, mineOpCount, userActions>>

\* the appointments of one student, earliest first
OwnAppointments(email) ==
  SortByStart(BlocksById({ a \in srvAppointments : a.student_email = email }))

\* GET /api/availability/appointments/mine?student_email=
ServeMine ==
  /\ mineLoad.st = "sent"
  /\ mineLoad' = Served(OkResponse(OwnAppointments(sessionEmail)))
  /\ UNCHANGED <<srvVars, mineOps>>
  /\ MineClientFrame

\* GET /api/availability/calendar for openReschedulePanel()
ServeOptions(i) ==
  /\ mineOps[i].kind = "options" /\ mineOps[i].req.st = "sent"
  /\ mineOps' = [mineOps EXCEPT ![i].req =
        Served(OkResponse(CalendarBody(mineOps[i].appointment[1].appointment_type)))]
  /\ UNCHANGED <<srvVars, mineLoad>>
  /\ MineClientFrame

\* the appointment of that id, when the student holds it
Held(id) == { a \in srvAppointments : a.id = id /\ a.student_email = sessionEmail }

NotFound == HttpError(Some("Appointment not found."))

\* PATCH /api/availability/appointments/{id}/reschedule: the new start
\* must be free
ServeReschedule(i) ==
  /\ mineOps[i].kind = "reschedule" /\ mineOps[i].req.st = "sent"
  /\ LET start == mineOps[i].arg[1]
     IN  IF Held(mineOps[i].id[1]) = {}
         THEN /\ mineOps' = [mineOps EXCEPT ![i].req = Served(NotFound)]
              /\ UNCHANGED srvAppointments
         ELSE LET old == CHOOSE a \in Held(mineOps[i].id[1]) : TRUE
                  new == [old EXCEPT !.start_time = start,
                                     !.end_time = start + (old.end_time - old.start_time)]
              IN  IF /\ \A a \in srvAppointments : a.start_time # start
                     /\ \A b \in srvBlocks : b.start_time # start
                  THEN /\ srvAppointments' = (srvAppointments \ {old}) \cup {new}
                       /\ mineOps' = [mineOps EXCEPT ![i].req = Served(OkResponse(<<new>>))]
                  ELSE /\ mineOps' = [mineOps EXCEPT ![i].req =
                             Served(HttpError(Some("That time is no longer available.")))]
                       /\ UNCHANGED srvAppointments
  /\ UNCHANGED <<srvBlocks, srvNextId, mineLoad>>
  /\ MineClientFrame

\* DELETE /api/availability/appointments/{id}?student_email=
ServeCancel(i) ==
  /\ mineOps[i].kind = "cancel" /\ mineOps[i].req.st = "sent"
  /\ IF Held(mineOps[i].id[1]) = {}
     THEN /\ mineOps' = [mineOps EXCEPT ![i].req = Served(NotFound)]
          /\ UNCHANGED srvAppointments
     ELSE /\ srvAppointments' = srvAppointments \ Held(mineOps[i].id[1])
          /\ mineOps' = [mineOps EXCEPT ![i].req = Served(OkResponse(<<>>))]
  /\ UNCHANGED <<srvBlocks, srvNextId, mineLoad>>
  /\ MineClientFrame

\* PATCH /api/availability/appointments/{id}/notes
ServeNotes(i) ==
  /\ mineOps[i].kind = "notes" /\ mineOps[i].req.st = "sent"
  /\ IF Held(mineOps[i].id[1]) = {}
     THEN /\ mineOps' = [mineOps EXCEPT ![i].req = Served(NotFound)]
          /\ UNCHANGED srvAppointments
     ELSE LET old == CHOOSE a \in Held(mineOps[i].id[1]) : TRUE
              new == [old EXCEPT !.notes = IF mineOps[i].arg[1] = "" THEN None
                                           ELSE mineOps[i].arg]
          IN  /\ srvAppointments' = (srvAppointments \ {old}) \cup {new}
              /\ mineOps' = [mineOps EXCEPT ![i].req = Served(OkResponse(<<new>>))]
  /\ UNCHANGED <<srvBlocks, srvNextId, mineLoad>>
  /\ MineClientFrame

NextMine ==
  \/ MineNgOnInit
  \/ ServeMine
  \/ MineLoadReturns
  \/ ClickReschedule
  \/ ClickClosePanel
  \/ ClickRescheduleTime
  \/ ClickConfirmReschedule
  \/ ClickCancelAppointment
  \/ ClickEditNotes
  \/ cancelEditing
  \/ TypeNotes
  \/ ClickSaveNotes
  \/ \E i \in 1..MaxMineActions :
       \/ ServeOptions(i) \/ ServeReschedule(i) \/ ServeCancel(i) \/ ServeNotes(i)
       \/ OptionsReturn(i) \/ MutationReturns(i)

-----------------------------------------------------------------------------
Init ==
  /\ view \in {"admin", "availability", "mine"}
  /\ lynxSession \in LoginSessions
  /\ errorMessage = ""
  /\ role = getRole(lynxSession)
  /\ sessionEmail = getSessionEmail(view, lynxSession)
  /\ now = NowInit
  /\ userActions = 0
  /\ InitBackend
  /\ InitAdminView
  /\ InitAvailView
  /\ InitMineView

Next == NextAdmin \/ NextAvail \/ NextMine

Spec == Init /\ [][Next]_vars

AdminInit == Init /\ view = "admin"

SpecAdmin == AdminInit /\ [][NextAdmin]_vars

AvailInit == Init /\ view = "availability"

SpecAvail == AvailInit /\ [][NextAvail]_vars

MineInit == Init /\ view = "mine"

SpecMine == MineInit /\ [][NextMine]_vars

-----------------------------------------------------------------------------
(* Login and navigation: every component reads the session when it is
   constructed *)

Views == { "admin", "availability", "mine" }

\* what onSubmit finds typed in the login form
LoginEmails == { <<>>, << " " >>, SamText, << " " >> \o SamMixedCase, DeanText }

SessionFrame == UNCHANGED <<now, userActions, srvVars, adminVars, availVars, mineVars>>

\* the login form is shown: LoginComponent's fields after construction
OpenLogin ==
  /\ view # "login"
  /\ view' = "login"
  /\ role' = "user"
  /\ sessionEmail' = ""
  /\ errorMessage' = ""
  /\ UNCHANGED lynxSession
  /\ SessionFrame

\* LoginComponent.onSubmit, then HomeComponent.ngOnInit reads the role
onSubmit(email, r) ==
  /\ view = "login"
  /\ IF LoginRefused(email, r)
     THEN /\ errorMessage' = "Admin login requires an email ending in @admin.edu."
          /\ UNCHANGED <<view, role, sessionEmail, lynxSession>>
     ELSE /\ errorMessage' = ""
          /\ lynxSession' = LoginSession(email, r)
          /\ view' = "home"
          /\ role' = getRole(lynxSession')
          /\ sessionEmail' = ""
  /\ SessionFrame

\* HomeComponent.ngOnInit reached with a session parameter in the address:
\* the decoded parameter, a non-empty text, is stored as it is
handleSamlCallback(item) ==
  /\ view = "login"
  /\ ~IsFalsyItem(item)
  /\ lynxSession' = item
  /\ view' = "home"
  /\ role' = getRole(lynxSession')
  /\ sessionEmail' = ""
  /\ UNCHANGED errorMessage
  /\ SessionFrame

\* the router constructs one of the three views
OpenView(v) ==
  /\ view # "login" /\ view # v
  /\ view' = v
  /\ role' = getRole(lynxSession)
  /\ sessionEmail' = getSessionEmail(v, lynxSession)
  /\ UNCHANGED <<lynxSession, errorMessage>>
  /\ SessionFrame

\* back to the home page
OpenHome ==
  /\ view \in Views
  /\ view' = "home"
  /\ role' = getRole(lynxSession)
  /\ sessionEmail' = ""
  /\ UNCHANGED <<lynxSession, errorMessage>>
  /\ SessionFrame

NextSession ==
  \/ OpenLogin
  \/ \E email \in LoginEmails, r \in { "admin", "user" } : onSubmit(email, r)
  \/ \E item \in StoredItems : handleSamlCallback(item)
  \/ \E v \in Views : OpenView(v)
  \/ OpenHome

\* the home page is shown over whatever localStorage holds
SessionInit ==
  /\ view = "home"
  /\ lynxSession \in StoredItems
  /\ errorMessage = ""
  /\ role = getRole(lynxSession)
  /\ sessionEmail = ""
  /\ now = NowInit
  /\ userActions = 0
  /\ InitBackend
  /\ InitAdminView
  /\ InitAvailView
  /\ InitMineView

SpecSession == SessionInit /\ [][NextSession]_vars

-----------------------------------------------------------------------------
(* The admin view loads what the backend holds: blocks and a booking at
   instants of any kind, on and off the quarter hours and the whole minutes *)

KeyInstants ==
  { At(4, 10, 0), At(4, 10, 0) + 30, At(4, 10, 5), At(4, 10, 14) + 59,
    At(4, 10, 15), At(4, 10, 15) + 10, At(4, 10, 20), At(4, 10, 30),
    At(4, 10, 45), At(4, 11, 0) }

BlockStarts == { At(4, 10, 0), At(4, 10, 5), At(4, 10, 14) + 59, At(4, 10, 15), At(4, 11, 0) }

LoadsInit ==
  /\ view = "admin"
  /\ lynxSession = LoginSession(DeanText, "admin")
  /\ errorMessage = ""
  /\ role = getRole(lynxSession)
  /\ sessionEmail = getSessionEmail(view, lynxSession)
  /\ now = NowInit
  /\ userActions = 0
  /\ \E b1, b2 \in BlockStarts :
       /\ b1 < b2
       /\ srvBlocks = { [id |-> 1, start_time |-> b1], [id |-> 2, start_time |-> b2] }
  /\ \E start, end \in KeyInstants :
       /\ start < end
       /\ srvAppointments = { [Booking EXCEPT !.id = 3, !.start_time = start,
                                              !.end_time = end] }
  /\ srvNextId = 4
  /\ InitAdminView
  /\ InitAvailView
  /\ InitMineView

\* ngOnInit and its two fetches
NextLoads ==
  \/ NgOnInit
  \/ ServeInitBlockedTimes
  \/ InitBlockedTimesReturn
  \/ InitAppointmentsReturn

SpecLoads == LoadsInit /\ [][NextLoads]_vars

-----------------------------------------------------------------------------
(* The admin grid opened at other times of the week *)

\* new Date() when the component is constructed: a Monday morning before the
\* first row, a Wednesday, the Thursday of NowInit, a Friday between two rows,
\* a Friday after the last row, a Saturday, a Sunday night, and the midnight
\* that starts the following Monday
GridNows ==
  { At(0, 8, 0), At(2, 10, 20), NowInit, At(4, 10, 20), At(4, 16, 30),
    At(5, 11, 0), At(6, 23, 30), At(7, 0, 0) }

GridInit ==
  /\ view = "admin"
  /\ lynxSession = LoginSession(DeanText, "admin")
  /\ errorMessage = ""
  /\ role = getRole(lynxSession)
  /\ sessionEmail = getSessionEmail(view, lynxSession)
  /\ now \in GridNows
  /\ userActions = 0
  /\ InitBackend
  /\ InitAdminView
  /\ InitAvailView
  /\ InitMineView

\* ngOnInit, its two fetches, and the week buttons
NextGrid ==
  \/ NgOnInit
  \/ previousWeek
  \/ nextWeek
  \/ ServeInitBlockedTimes
  \/ InitBlockedTimesReturn
  \/ InitAppointmentsReturn

SpecGrid == GridInit /\ [][NextGrid]_vars

-----------------------------------------------------------------------------
(* Properties *)

\* C1: toggleBlocked called by an admin on a cell that is past, booked or in
\* the lunch hour sends no request (no toggle, load or poll request appears
\* and the backend is untouched), leaves blockedMap and isSaving as they
\* were, and leaves a non-empty adminError.
C1_GuardedToggleIsInert ==
  [][\A cell \in GridCells :
       ( /\ role = "admin"
         /\ cell.isPast \/ cell.isBooked \/ cell.isLunchBreak
         /\ toggleBlocked(cell) )
       => /\ UNCHANGED <<blockedMap, isSaving, toggles, toggleCount,
                         initBlocked, initBooked, polls, srvVars>>
          /\ adminError' # ""]_vars

\* an admin has clicked a booked cell, with the grid showing a blocked cell
C1_Witness ==
  /\ role = "admin"
  /\ adminError = "Booked appointment times cannot be blocked."
  /\ toggleCount = 0
  /\ DOMAIN blockedMap # {}

\* C2 (as claimed): when the first toggle of a cell created a block and has
\* finished without an error, and the last blocked-times fetch to arrive
\* succeeded, the next toggle of the same cell, taken from the grid as it then
\* stands, deletes that block.
C2_SecondToggleDeletes ==
  [][\A cell \in GridCells :
       ( /\ toggleCount = 1
         /\ toggles[1].pc = "done" /\ toggles[1].result = "ok"
         /\ toggles[1].op = "block"
         /\ blockedTimes # <<>>
         /\ cell.key = toggles[1].cell[1].key
         /\ toggleBlocked(cell)
         /\ toggleCount' = 2 )
       => /\ toggles'[2].op = "unblock"
          /\ toggles'[2].blockId = toggles[1].blockId]_vars

\* C3: every cell of the grid in hour 12 is a lunch cell with blockedId -1,
\* whatever blockedMap holds for its key, and no toggleBlocked call ever got
\* as far as a request for such a cell.
C3_LunchCellsNeverToggle ==
  /\ \A cell \in GridCells :
       cell.time[1] = 12 => cell.isLunchBreak /\ cell.blockedId = Some(-1)
  /\ \A i \in DOMAIN toggles :
       toggles[i].cell # None => toggles[i].cell[1].time[1] # 12

\* blockedMap holds a block for a lunch cell of the grid, and an admin has
\* clicked a lunch cell
C3_Witness ==
  /\ role = "admin"
  /\ \E cell \in GridCells : cell.time[1] = 12 /\ cell.key \in DOMAIN blockedMap
  /\ adminError = "12:00 PM to 1:00 PM is reserved for lunch and is always blocked."

\* C4: a toggleBlocked or submitBooking call sends its reload only in the
\* step in which the response to its POST / DELETE is handled; until then it
\* has sent no reload.
C4_ReloadAfterMutation ==
  [][ /\ \A i \in DOMAIN toggles :
           (toggles'[i].pc = "loadBlockedTimes" /\ toggles[i].pc # "loadBlockedTimes")
           => /\ toggles[i].pc = "mutate" /\ toggles[i].req.st = "served"
              /\ toggles[i].req.resp[1].out = "ok"
      /\ \A i \in DOMAIN bookings :
           /\ (bookings'[i].pc = "loadCalendar" /\ bookings[i].pc # "loadCalendar")
              => /\ bookings[i].pc = "post" /\ bookings[i].req.st = "served"
                 /\ bookings[i].req.resp[1].out = "ok"
           /\ bookings'[i].pc \in {"idle", "post"} => bookings'[i].reloads = 0 ]_vars

\* a toggleBlocked call has had its POST answered and awaits its reload
C4_Witness ==
  \E i \in DOMAIN toggles :
    /\ toggles[i].pc = "loadBlockedTimes" /\ toggles[i].req.st = "sent"
    /\ toggles[i].op = "block" /\ toggles[i].blockId # None

MutatingKinds == {"reschedule", "cancel", "notes"}

\* C5 (as claimed): no two mutating requests for the same entity (the same
\* cell, the same slot start, the same appointment) await their response at
\* the same time.
C5_NoOverlapPerEntity ==
  /\ \A i, j \in DOMAIN toggles :
       ( /\ i # j
         /\ toggles[i].pc = "mutate" /\ toggles[j].pc = "mutate" )
       => toggles[i].cell[1].key # toggles[j].cell[1].key
  /\ \A i, j \in DOMAIN bookings :
       ( /\ i # j
         /\ bookings[i].pc = "post" /\ bookings[j].pc = "post" )
       => bookings[i].start_time # bookings[j].start_time
  /\ \A i, j \in DOMAIN mineOps :
       ( /\ i # j
         /\ mineOps[i].kind \in MutatingKinds /\ mineOps[i].req.st # "none"
         /\ mineOps[j].kind \in MutatingKinds /\ mineOps[j].req.st # "none" )
       => mineOps[i].id # mineOps[j].id

\* C5 (amended): every mutating request is sent by the step in which a user
\* action starts its call, one request per call; a call never sends a
\* second one.
C5_OneMutationPerCall ==
  [][ /\ \A i \in DOMAIN toggles :
           (toggles'[i] # toggles[i] /\ toggles'[i].pc = "mutate" /\ toggles'[i].req = Sent)
           => toggles[i].pc = "idle" /\ userActions' = userActions + 1
      /\ \A i \in DOMAIN bookings :
           /\ (bookings'[i] # bookings[i] /\ bookings'[i].pc = "post" /\ bookings'[i].req = Sent)
              => bookings[i].pc = "idle" /\ userActions' = userActions + 1
           /\ bookings'[i].posts <= 1
      /\ \A i \in DOMAIN mineOps :
           ( /\ mineOps'[i] # mineOps[i]
             /\ mineOps'[i].kind \in MutatingKinds /\ mineOps'[i].req = Sent )
           => mineOps[i].kind = "none" /\ userActions' = userActions + 1
      /\ toggleCount' <= toggleCount + 1
      /\ bookingCount' <= bookingCount + 1
      /\ mineOpCount' <= mineOpCount + 1 ]_vars

\* two submitBooking calls for the same slot both await their POST
C5_Witness ==
  \E i, j \in DOMAIN bookings :
    /\ i # j
    /\ bookings[i].pc = "post" /\ bookings[j].pc = "post"
    /\ bookings[i].start_time = bookings[j].start_time
    /\ bookings[i].posts = 1 /\ bookings[j].posts = 1

\* C6: the step in which a mutating call ends, on success, on an HTTP error
\* or on a network failure, leaves the call's busy flag reset (isSaving,
\* isBooking false; cancelingAppointmentId, reschedulingAppointmentId,
\* savingAppointmentId null); and a busy flag is only ever set while a call
\* that resets it is still awaiting a response, so the flag is reset once
\* the requests complete.
C6_BusyFlagsReset ==
  [][ /\ \A i \in DOMAIN toggles :
           (toggles[i].pc # "done" /\ toggles'[i].pc = "done") => ~isSaving'
      /\ \A i \in DOMAIN bookings :
           (bookings[i].pc # "done" /\ bookings'[i].pc = "done") => ~cal'.isBooking
      /\ \A i \in DOMAIN mineOps :
           (mineOps[i].req.st # "none" /\ mineOps'[i].req.st = "none")
           => /\ mineOps[i].kind = "cancel" => mine'.cancelingAppointmentId = None
              /\ mineOps[i].kind = "reschedule" => mine'.reschedulingAppointmentId = None
              /\ mineOps[i].kind = "notes" => mine'.savingAppointmentId = None
      /\ isSaving' => \E i \in DOMAIN toggles : toggles'[i].req.st # "none"
      /\ cal'.isBooking => \E i \in DOMAIN bookings : bookings'[i].req.st # "none"
      /\ \A kind \in MutatingKinds :
           LET flag == CASE kind = "cancel" -> mine'.cancelingAppointmentId
                         [] kind = "reschedule" -> mine'.reschedulingAppointmentId
                         [] OTHER -> mine'.savingAppointmentId
           IN  flag # None
               => \E i \in DOMAIN mineOps :
                    mineOps'[i].kind = kind /\ mineOps'[i].req.st # "none" ]_vars

\* a cancel has failed and cancelingAppointmentId is null again
C6_Witness ==
  \E i \in DOMAIN mineOps :
    /\ mineOps[i].kind = "cancel" /\ mineOps[i].result = "error"
    /\ mine.cancelingAppointmentId = None
    /\ mine.error # ""

\* C7 (as claimed): every submitBooking call whose POST succeeded has sent one
\* calendar request by the time it ends.
C7_ReloadAlwaysFetched ==
  [][\A i \in DOMAIN bookings :
       (bookings'[i].result = "ok" /\ bookings[i].result # "ok")
       => bookings'[i].reloads = 1]_vars

\* C7 (amended): when submitBooking's POST succeeds, the call has sent one
\* POST; it then sends one calendar request if an appointment type is still
\* selected and none otherwise; when the call ends weekIndex is what it was
\* when the reload started, confirmedBooking is the appointment the server
\* created, selectedBookingSlot is null and isBooking is false.
C7_BookingSuccess ==
  [][\A i \in DOMAIN bookings :
       /\ ( /\ bookings[i].pc = "post" /\ bookings'[i].pc # "post"
            /\ bookings'[i].result # "error" )
          => /\ bookings'[i].posts = 1
             /\ bookings'[i].savedWeekIndex = Some(cal.weekIndex)
             /\ IF cal.selectedAppointmentType # ""
                THEN /\ bookings'[i].pc = "loadCalendar"
                     /\ bookings'[i].req = Sent
                     /\ bookings'[i].reloads = 1
                ELSE /\ bookings'[i].pc = "done"
                     /\ bookings'[i].reloads = 0
       /\ (bookings'[i].result = "ok" /\ bookings[i].result # "ok")
          => /\ cal'.weekIndex = bookings'[i].savedWeekIndex[1]
             /\ cal'.confirmedBooking = bookings'[i].appointment
             /\ bookings'[i].appointment[1] \in srvAppointments'
             /\ bookings'[i].appointment[1].start_time = bookings'[i].start_time[1]
             /\ cal'.selectedBookingSlot = None
             /\ ~cal'.isBooking
             /\ bookings'[i].posts = 1]_vars

\* a booking has ended after a reload that succeeded, and its confirmation
\* is shown
C7_Witness ==
  \E i \in DOMAIN bookings :
    /\ bookings[i].result = "ok" /\ bookings[i].reloads = 1
    /\ cal.confirmedBooking = bookings[i].appointment
    /\ cal.weekIndex = bookings[i].savedWeekIndex[1]
    /\ cal.filteredSlots # <<>>

SelectionOffered(c) ==
  c.selectedBookingSlot # None
  => \E k \in DOMAIN c.filteredSlots :
       c.filteredSlots[k].start_time = c.selectedBookingSlot[1].start_time

\* C8 (as claimed): after every calendar reload that completes, with success
\* or failure, and after every filter change, a staged slot is one of the
\* filtered slots.
C8_StagedSlotIsOffered ==
  [][ ( \/ \E i \in 1..MaxInFlight : CalendarReturns(i)
        \/ \E i \in 1..MaxAvailActions : BookingReloadReturns(i)
        \/ ChangeTimeOfDay )
      => SelectionOffered(cal') ]_vars

\* C9: when a submitBooking call whose POST succeeded ends, no filtered slot
\* starts at the instant that was booked.
C9_BookedSlotNotOffered ==
  [][\A i \in DOMAIN bookings :
       (bookings'[i].result = "ok" /\ bookings[i].result # "ok")
       => \A k \in DOMAIN cal'.filteredSlots :
            cal'.filteredSlots[k].start_time # bookings[i].start_time[1]]_vars

\* a booking has ended after a reload that shows other slots
C9_Witness ==
  \E i \in DOMAIN bookings :
    /\ bookings[i].result = "ok" /\ bookings[i].reloads = 1
    /\ cal.slots # <<>> /\ cal.filteredSlots # <<>>
    /\ \E k \in DOMAIN cal.slots : cal.slots[k].start_time = bookings[i].start_time[1]

\* C10: when the response to a notes PATCH is handled, a success replaces the
\* entries whose id is the response's id by the response and leaves every
\* other entry, the length and the order of the list alone; a failure leaves
\* the list alone.
C10_NotesReplaceById ==
  [][\A i \in DOMAIN mineOps :
       ( /\ mineOps[i].kind = "notes"
         /\ mineOps[i].req.st = "served" /\ mineOps'[i].req.st = "none" )
       => IF mineOps'[i].result = "ok"
          THEN LET updated == mineOps[i].req.resp[1].body[1]
               IN  /\ Len(mine'.appointments) = Len(mine.appointments)
                   /\ \A k \in DOMAIN mine.appointments :
                        mine'.appointments[k] =
                          IF mine.appointments[k].id = updated.id
                          THEN updated
                          ELSE mine.appointments[k]
          ELSE mine'.appointments = mine.appointments]_vars

\* a notes PATCH has succeeded on a list of two appointments
C10_Witness ==
  \E i \in DOMAIN mineOps :
    /\ mineOps[i].kind = "notes" /\ mineOps[i].result = "ok"
    /\ Len(mine.appointments) = 2
    /\ \E k \in DOMAIN mine.appointments :
         /\ mine.appointments[k].id = mineOps[i].id[1]
         /\ mine.appointments[k].notes = Some("bring insurance card")
    /\ \E k \in DOMAIN mine.appointments : mine.appointments[k].id # mineOps[i].id[1]

\* C11: when the response to a reschedule PATCH is handled and it is a
\* success, the list keeps its length, holds the same entries except that
\* those with the response's id are now the response, and is in ascending
\* order of start_time.
C11_RescheduleReplacesAndSorts ==
  [][\A i \in DOMAIN mineOps :
       ( /\ mineOps[i].kind = "reschedule"
         /\ mineOps[i].req.st = "served" /\ mineOps'[i].req.st = "none"
         /\ mineOps'[i].result = "ok" )
       => LET updated == mineOps[i].req.resp[1].body[1]
              before == mine.appointments
              after == mine'.appointments
              expected == [k \in DOMAIN before |->
                             IF before[k].id = updated.id THEN updated ELSE before[k]]
              Count(list, e) == Cardinality({ k \in DOMAIN list : list[k] = e })
          IN  /\ Len(after) = Len(before)
              /\ \A e \in SeqToSet(expected) \cup SeqToSet(after) :
                   Count(after, e) = Count(expected, e)
              /\ \A k \in 1..(Len(after) - 1) :
                   after[k].start_time <= after[k + 1].start_time]_vars

\* a reschedule has succeeded and moved the later of two appointments in
\* front of the other
C11_Witness ==
  \E i \in DOMAIN mineOps :
    /\ mineOps[i].kind = "reschedule" /\ mineOps[i].result = "ok"
    /\ mineOps[i].id[1] = OwnSecond.id
    /\ Len(mine.appointments) = 2
    /\ mine.appointments[1].id = OwnSecond.id
    /\ mine.appointments[2].id = OwnFirst.id
    /\ mine.appointments[1].start_time = mineOps[i].arg[1]

\* C12: when the response to the DELETE of cancelAppointment(X) is handled, a
\* success status leaves the list without the entries of id X and with every
\* other entry in its place and order; an HTTP error or a network failure
\* leaves the list as it was and error non-empty.
C12_CancelRemovesOnSuccessOnly ==
  [][\A i \in DOMAIN mineOps :
       ( /\ mineOps[i].kind = "cancel"
         /\ mineOps[i].req.st = "served" /\ mineOps'[i].req.st = "none" )
       => LET X == mineOps[i].id[1]
              others == { k \in DOMAIN mine.appointments : mine.appointments[k].id # X }
          IN  IF mineOps'[i].result = "ok"
              THEN /\ mineOps[i].req.resp[1].out = "ok"
                   /\ Len(mine'.appointments) = Cardinality(others)
                   /\ \A k \in DOMAIN mine'.appointments : mine'.appointments[k].id # X
                   /\ \A k \in others :
                        mine'.appointments[Cardinality({ j \in others : j <= k })]
                          = mine.appointments[k]
              ELSE /\ mine'.appointments = mine.appointments
                   /\ mine'.error # ""]_vars

\* one cancel of an appointment has failed and a later one of the same
\* appointment has succeeded: the other appointment is what is left
C12_Witness ==
  \E i, j \in DOMAIN mineOps :
    /\ mineOps[i].kind = "cancel" /\ mineOps[i].result = "error"
    /\ mineOps[j].kind = "cancel" /\ mineOps[j].result = "ok"
    /\ mineOps[i].id = mineOps[j].id
    /\ Len(mine.appointments) = 1
    /\ mine.appointments[1].id # mineOps[j].id[1]

\* C13: handling the response to the options fetch of openReschedulePanel
\* selects nothing: when no start time is selected before the response is
\* handled, none is selected after it, so that a confirmReschedule that
\* follows with no selectRescheduleTime in between sends no PATCH.
C13_LoadingSelectsNothing ==
  [][\A i \in DOMAIN mineOps :
       ( /\ mineOps[i].kind = "options"
         /\ mineOps[i].req.st = "served" /\ mineOps'[i].req.st = "none"
         /\ mine.selectedRescheduleStartTime = None )
       => mine'.selectedRescheduleStartTime = None]_vars

\* C14: when a successful response to the options fetch of
\* openReschedulePanel(appointment) is handled, rescheduleOptions holds, once
\* each, exactly the slots of the response that are available and do not
\* start at the appointment's start; every slot is in the group of its local
\* date, the groups are in ascending order of date and the slots of a group in
\* ascending order of start.
C14_OptionsAreAvailableOthersGrouped ==
  [][\A i \in DOMAIN mineOps :
       ( /\ mineOps[i].kind = "options"
         /\ mineOps[i].req.st = "served" /\ mineOps'[i].req.st = "none"
         /\ mineOps'[i].result = "ok" )
       => LET body == mineOps[i].req.resp[1].body
              appointment == mineOps[i].appointment[1]
              groups == mine'.rescheduleOptions
              wanted == { body[k] : k \in { n \in DOMAIN body :
                            /\ body[n].is_available
                            /\ body[n].start_time # appointment.start_time } }
              places == { <<g, j>> \in (DOMAIN groups) \X (1..Len(body)) :
                            j \in DOMAIN groups[g].slots }
          IN  /\ { groups[p[1]].slots[p[2]] : p \in places } = wanted
              /\ \A p, q \in places :
                   groups[p[1]].slots[p[2]] = groups[q[1]].slots[q[2]] => p = q
              /\ \A g \in DOMAIN groups : Len(groups[g].slots) \in 1..Len(body)
              /\ \A p \in places :
                   formatDateKey(groups[p[1]].slots[p[2]].start_time) = groups[p[1]].dateKey
              /\ \A g, h \in DOMAIN groups : g < h => groups[g].dateKey < groups[h].dateKey
              /\ \A p, q \in places :
                   (p[1] = q[1] /\ p[2] < q[2])
                   => groups[p[1]].slots[p[2]].start_time
                        < groups[q[1]].slots[q[2]].start_time]_vars

\* the student's cancel of the Friday appointment reached the backend but its
\* response was lost; the panel opened afterwards for that appointment has
\* loaded: the freed slot at the appointment's own start is not offered, the
\* other available slots are, in two groups
C14_Witness ==
  /\ userActions = 2 /\ mineOpCount = 2
  /\ mineOps[1].kind = "cancel" /\ mineOps[1].id = Some(OwnFirst.id)
  /\ mineOps[1].result = "error"
  /\ \A a \in srvAppointments : a.id # OwnFirst.id
  /\ mineOps[2].kind = "options" /\ mineOps[2].id = Some(OwnFirst.id)
  /\ mineOps[2].result = "ok"
  /\ mine.error = ""
  /\ OwnFirst.start_time \in SeqToSet(CalendarStarts)
  /\ OwnFirst.start_time \notin OfferedStarts
  /\ Len(mine.rescheduleOptions) = 2

\* C15: a failed request leaves a message in view state. Here for the
\* blocked-times fetch of ngOnInit: when its response is handled as a failure
\* (the backend had written a non-empty list and the view's list is empty
\* afterwards) in a view that is still mounted, adminError is not empty.
C15_FailedLoadIsReported ==
  [][( /\ ~isDestroyed
       /\ initBlocked.st = "served" /\ initBlocked'.st = "none"
       /\ initBlocked.resp[1].body # <<>>
       /\ blockedTimes' = <<>> )
     => adminError' # ""]_vars

\* C16: a confirmReschedule call by a student with no start time selected
\* sends no request and leaves a non-empty message in error.
C16_ConfirmWithoutTargetIsReported ==
  [][( /\ ClickConfirmReschedule
       /\ role = "user"
       /\ mine.selectedRescheduleStartTime = None )
     => /\ mineOps' = mineOps
        /\ mine'.error # ""]_vars

\* C17: for a role other than admin the timer is never started and no
\* appointments request is ever sent, by ngOnInit or by a tick; once
\* ngOnDestroy has run the timer is cleared, no step sends a poll request and
\* no step, the handling of a late response included, calls detectChanges.
C17_PollOnlyForMountedAdmin ==
  [][ /\ role # "admin"
         => /\ ~autoRefreshTimer'
            /\ initBooked'.st = "none"
            /\ \A i \in DOMAIN polls : polls'[i].st = "none"
      /\ isDestroyed
         => /\ ~autoRefreshTimer'
            /\ \A i \in DOMAIN polls : polls[i].st = "none" => polls'[i].st = "none"
            /\ ~viewRefreshed' ]_vars

\* the admin has left the view while a request of the poll was awaiting its
\* response
C17_Witness ==
  /\ role = "admin" /\ isDestroyed /\ ~autoRefreshTimer
  /\ \E i \in DOMAIN polls : polls[i].st = "sent"

\* a stored item that is not the JSON text of an object whose role and email
\* members, where it has them, are strings
Malformed(item) ==
  \/ item.form # "json"
  \/ item.value.t # "object"
  \/ item.role # None /\ item.role[1].t # "string"
  \/ item.email # None /\ item.email[1].t # "string"

\* C18 as stated: over every missing or malformed stored item a view holds
\* role 'user' and its placeholder email.
C18_MalformedYieldsDefaults ==
  (view \in Views /\ Malformed(lynxSession))
  => (role = "user" /\ sessionEmail = Placeholder(view))

\* C18, amended: the readers never throw and each of the two values falls
\* back on its own. role is 'admin' exactly when the item is the JSON text of
\* an object whose role member is the string 'admin', and 'user' otherwise;
\* sessionEmail is the view's placeholder unless the item is the JSON text of
\* an object whose email member is a string with a character that is not
\* white space.
C18_FieldsFallBackSeparately ==
  view \in Views =>
    LET item == lynxSession
        isObject == item.form = "json" /\ item.value.t = "object"
    IN  /\ role \in { "admin", "user" }
        /\ sessionEmail # Uncaught
        /\ role = "admin"
             <=> (isObject /\ item.role = Some(JsString(AdminText)))
        /\ sessionEmail # Placeholder(view)
             => /\ isObject
                /\ item.email # None
                /\ item.email[1].t = "string"
                /\ \E k \in DOMAIN item.email[1].s : item.email[1].s[k] \notin WhiteSpace

\* the student's view was constructed over an object whose role and email
\* are numbers
C18_Witness ==
  /\ view = "mine"
  /\ lynxSession = StoredItem("json", Js("object"), Some(JsNumber(1)), Some(JsNumber(42)))
  /\ role = "user"
  /\ sessionEmail = Placeholder("mine")

\* same local date and hour, minutes in the same quarter of the hour
SameBucket(a, b) ==
  /\ formatDateKey(a) = formatDateKey(b)
  /\ (a % DaySecs) \div HourSecs = (b % DaySecs) \div HourSecs
  /\ ((a % HourSecs) \div 60) \div 15 = ((b % HourSecs) \div 60) \div 15

\* C19: two blocks whose starts lie in the same 15-minute bucket have the
\* same slot key, so that the loaded blockedMap holds them under one key.
C19_SameBucketSameKey ==
  \A i, j \in DOMAIN blockedTimes :
    SameBucket(blockedTimes[i].start_time, blockedTimes[j].start_time)
    => /\ getSlotKey(blockedTimes[i].start_time) = getSlotKey(blockedTimes[j].start_time)
       /\ MapGet(blockedMap, getSlotKey(blockedTimes[i].start_time))
            = MapGet(blockedMap, getSlotKey(blockedTimes[j].start_time))

\* C20: once the bookings are loaded, the slot keys of a booking with
\* start < end are ceil((end - start) / 15 min) in number, hold the key of
\* start and do not hold the key of end.
C20_KeysSpanTheAppointment ==
  \A k \in DOMAIN bookedAppointments :
    LET start == bookedAppointments[k].start_time
        end   == bookedAppointments[k].end_time
        keys  == getSlotKeysInRange(start, end)
    IN  start < end
        => /\ SeqToSet(keys) \subseteq bookedSlotKeys
           /\ Cardinality(SeqToSet(keys)) = (end - start + 15 * 60 - 1) \div (15 * 60)
           /\ keys[1] = getSlotKey(start)
           /\ getSlotKey(end) \notin SeqToSet(keys)

\* the time buckets with a cell, on one of the visible days, that is not past
LiveBuckets ==
  { r \in DOMAIN timeSlots :
      \E d \in DOMAIN calendarDays :
        calendarDays[d].key * DaySecs + timeSlots[r][1] * HourSecs
          + timeSlots[r][2] * 60 >= now }

\* C21: once buildCalendar has run, calendarRows holds one row for each time
\* bucket that has a non-past cell among the visible days and no other row,
\* in the order of the time buckets; a row that is kept has one cell per
\* visible day, past cells included, and a bucket whose cells are all past,
\* or that has no cells, has no row.
C21_RowsAreTheLiveBuckets ==
  mounted =>
    /\ Len(calendarRows) = Cardinality(LiveBuckets)
    /\ \A r \in LiveBuckets :
         \E i \in DOMAIN calendarRows :
           /\ Len(calendarRows[i]) = Len(calendarDays)
           /\ \A c \in DOMAIN calendarDays :
                /\ calendarRows[i][c].time = timeSlots[r]
                /\ calendarRows[i][c].date = calendarDays[c].key
                /\ calendarRows[i][c].isPast
                     = (calendarDays[c].key * DaySecs + timeSlots[r][1] * HourSecs
                          + timeSlots[r][2] * 60 < now)
    /\ \A i, j \in DOMAIN calendarRows :
         i < j => calendarRows[i][1].time[1] * 60 + calendarRows[i][1].time[2]
                    < calendarRows[j][1].time[1] * 60 + calendarRows[j][1].time[2]

\* Friday 10:20, this week: the buckets up to 10:15 are gone, the later ones
\* are shown
C21_Witness ==
  /\ mounted
  /\ now = At(4, 10, 20)
  /\ weekStart = getWeekStart(now)
  /\ Len(calendarDays) = 1
  /\ Len(calendarRows) > 0
  /\ Len(calendarRows) < Len(timeSlots)
  /\ calendarRows[1][1].time = <<10, 30>>

\* the Monday-to-Friday days of the displayed week that are today or later
VisibleDays ==
  { weekStart + i * DaySecs : i \in { k \in 0..4 : weekStart + k * DaySecs
                                                    >= getStartOfDay(now) } }

\* C22: once buildCalendar has run, calendarDays lists the Monday-to-Friday
\* days of the displayed week that are today or later, each once and in
\* ascending order, whatever week previousWeek and nextWeek have reached; no
\* column is a day before today.
C22_DaysAreTodayOrLater ==
  mounted =>
    /\ { calendarDays[d].date : d \in DOMAIN calendarDays } = VisibleDays
    /\ \A d, e \in DOMAIN calendarDays :
         d < e => calendarDays[d].date < calendarDays[e].date
    /\ \A d \in DOMAIN calendarDays :
         /\ calendarDays[d].date >= getStartOfDay(now)
         /\ calendarDays[d].key = formatDateKey(calendarDays[d].date)
         /\ getDay(calendarDays[d].date) \in 1..5

\* opened on a Wednesday and back on the current week after two week steps:
\* Wednesday, Thursday and Friday are the columns
C22_Witness ==
  /\ mounted
  /\ now = At(2, 10, 20)
  /\ userActions = 2
  /\ weekStart = getWeekStart(now)
  /\ Len(calendarDays) = 3
  /\ calendarDays[1].date = At(2, 0, 0)

\* weekStart is a Monday at local midnight; before any week step it is the
\* Monday of the Monday-to-Sunday week that contains new Date()
MondayOfThisWeek ==
  /\ getDay(weekStart) = 1
  /\ weekStart % DaySecs = 0
  /\ userActions = 0 => /\ weekStart <= now
                        /\ now < weekStart + 7 * DaySecs

C24_WednesdayThreeDaysBack ==
  userActions = 0 =>
    /\ getDay(now) = 3 =>
         /\ weekStart = getStartOfDay(now) - 3 * DaySecs
         /\ cal.currentWeekStart = getStartOfDay(now) - 3 * DaySecs
    /\ getDay(now) = 0 =>
         /\ weekStart = getStartOfDay(now) - 6 * DaySecs
         /\ cal.currentWeekStart = getStartOfDay(now) - 6 * DaySecs

\* C24: for a Wednesday the week start of either view (getWeekStart of the
\* admin grid, getStartOfWeek of the student calendar) is the Monday two days
\* before it, at midnight; for a Sunday it is the Monday six days before it.
C24_WednesdayTwoDaysBack ==
  userActions = 0 =>
    /\ getDay(now) = 3 =>
         /\ weekStart = getStartOfDay(now) - 2 * DaySecs
         /\ cal.currentWeekStart = getStartOfDay(now) - 2 * DaySecs
    /\ getDay(now) = 0 =>
         /\ weekStart = getStartOfDay(now) - 6 * DaySecs
         /\ cal.currentWeekStart = getStartOfDay(now) - 6 * DaySecs
    /\ getDay(now) \in {0, 3} =>
         /\ getDay(weekStart) = 1 /\ weekStart % DaySecs = 0
         /\ getDay(cal.currentWeekStart) = 1 /\ cal.currentWeekStart % DaySecs = 0

\* a component constructed on Wednesday 10:20: its week starts on the Monday
\* of instant 0
C24_Witness ==
  /\ now = At(2, 10, 20)
  /\ getDay(now) = 3
  /\ userActions = 0
  /\ weekStart = At(0, 0, 0)
  /\ cal.currentWeekStart = At(0, 0, 0)

\* the slots of a list that the filter settings of c keep, in the list's order
Wanted(c, slot) ==
  /\ slot.is_available
  /\ slot.appointment_type = c.selectedAppointmentType
  /\ \/ c.selectedTimeOfDay = "all"
     \/ c.selectedTimeOfDay = "morning" /\ slot.time[1] < 12
     \/ c.selectedTimeOfDay = "afternoon" /\ slot.time[1] >= 12

FilterOf(c, list) ==
  IF c.selectedAppointmentType = "" THEN <<>>
  ELSE LET keep(slot) == Wanted(c, slot) IN SelectSeq(list, keep)

\* C25 as stated: when a calendar response has been stored, filteredSlots is
\* the sub-list of the response body, in the order of the body, of the slots
\* that are available, of the selected type and inside the time-of-day
\* filter, and it is empty when no type is selected.
C25_FilteredInFetchedOrder ==
  [][ /\ \A i \in 1..MaxInFlight :
           (CalendarReturns(i) /\ cal'.slots # <<>>)
             => cal'.filteredSlots = FilterOf(cal', calLoads[i].req.resp[1].body)
      /\ \A i \in 1..MaxAvailActions :
           (BookingReloadReturns(i) /\ cal'.slots # <<>>)
             => cal'.filteredSlots = FilterOf(cal', bookings[i].req.resp[1].body) ]_vars

\* slots holds the slots of the response body in ascending order of start
StoredInStartOrder(body) ==
  /\ Len(cal'.slots) = Len(body)
  /\ SeqToSet(cal'.slots) = SeqToSet(body)
  /\ \A a, b \in DOMAIN cal'.slots :
       a < b => cal'.slots[a].start_time <= cal'.slots[b].start_time

\* filteredSlots is what the filter settings keep of slots
FilteredIsFilterOfSlots == cal.filteredSlots = FilterOf(cal, cal.slots)

\* C25: in every state, so after every recompute, filteredSlots is the
\* sub-list of slots, in the order of slots, of the slots that are available,
\* of the selected type and inside the time-of-day filter (morning: hour < 12;
\* afternoon: hour >= 12; all: any hour), and it is empty when no type is
\* selected; slots holds the slots of the last stored response in ascending
\* order of their start, not in the order of the response.
C25_FilteredInStartOrder ==
  /\ []FilteredIsFilterOfSlots
  /\ [][ /\ \A i \in 1..MaxInFlight :
              (CalendarReturns(i) /\ cal'.slots # <<>>)
                => StoredInStartOrder(calLoads[i].req.resp[1].body)
         /\ \A i \in 1..MaxAvailActions :
              (BookingReloadReturns(i) /\ cal'.slots # <<>>)
                => StoredInStartOrder(bookings[i].req.resp[1].body) ]_vars

\* a stored response under the filter "all": the slots that are taken are
\* left out, and the Monday 13:00 of next week, which the response listed
\* first, comes last
C25_Witness ==
  /\ cal.selectedAppointmentType # ""
  /\ cal.selectedTimeOfDay = "all"
  /\ Len(cal.slots) = Len(CalendarStarts)
  /\ Len(cal.filteredSlots) >= 2
  /\ Len(cal.filteredSlots) < Len(cal.slots)
  /\ cal.filteredSlots[Len(cal.filteredSlots)].start_time = CalendarStarts[1]

\* C26: weekIndex of the student availability view is 0 or 1 in every state,
\* whatever the order of showNextWeek, showCurrentWeek, type changes and
\* bookings, and also when the week is changed while a booking or a calendar
\* reload is in flight.
C26_WeekIndexIsZeroOrOne == cal.weekIndex \in {0, 1}

\* a booking of a slot of this week has finished and has put back the week
\* index it saved, 1, which showNextWeek had set after the slot was chosen
C26_Witness ==
  \E i \in 1..MaxAvailActions :
    /\ bookings[i].pc = "done" /\ bookings[i].result = "ok"
    /\ bookings[i].savedWeekIndex = Some(1)
    /\ bookings[i].start_time = Some(At(4, 11, 0))
    /\ cal.weekIndex = 1

\* blockedMap after the step holds the keys of the entries of resp and their
\* ids, and nothing else; it is empty when resp is a failure
BlockedMapIsOf(resp) ==
  IF resp.out = "ok"
  THEN /\ DOMAIN blockedMap'
            = { getSlotKey(resp.body[k].start_time) : k \in DOMAIN resp.body }
       /\ \A key \in DOMAIN blockedMap' :
            \E k \in DOMAIN resp.body :
              /\ getSlotKey(resp.body[k].start_time) = key
              /\ resp.body[k].id = blockedMap'[key]
  ELSE blockedMap' = EmptyMap

\* bookedSlotKeys after the step holds the keys of the buckets that the
\* appointments of resp span, and nothing else; it is empty when resp is a
\* failure
BookedKeysAreOf(resp) ==
  IF resp.out = "ok"
  THEN bookedSlotKeys'
         = UNION { SeqToSet(getSlotKeysInRange(resp.body[k].start_time,
                                                resp.body[k].end_time)) :
                     k \in { n \in DOMAIN resp.body :
                               resp.body[n].start_time < resp.body[n].end_time } }
  ELSE bookedSlotKeys' = {}

\* C27: when a loadBlockedTimes ends (the one of ngOnInit or the one of a
\* toggle), blockedMap holds the keys of that response and nothing of what it
\* held before, the entry a toggle had written included, and it is empty when
\* the fetch failed; when a loadBookedAppointments ends (of ngOnInit, of a
\* toggle or of the timer), the same holds of bookedSlotKeys.
C27_FetchReplacesTheMaps ==
  [][ /\ \A resp \in IF initBlocked.st = "served"
                    THEN Outcomes(initBlocked.resp[1], GetFailures) ELSE {} :
           (InitBlockedTimesReturn /\ BlockedTimesArrive(resp))
             => BlockedMapIsOf(resp)
      /\ \A i \in 1..MaxAdminActions :
           \A resp \in IF toggles[i].req.st = "served"
                       THEN Outcomes(toggles[i].req.resp[1], GetFailures) ELSE {} :
             (ToggleBlockedTimesReturn(i) /\ BlockedTimesArrive(resp))
               => BlockedMapIsOf(resp)
      /\ \A resp \in AppointmentsResponses :
           ( /\ \/ InitAppointmentsReturn
                \/ \E i \in 1..MaxAdminActions : ToggleAppointmentsReturn(i)
                \/ \E i \in 1..MaxPolls : PollReturn(i)
             /\ AppointmentsArrive(resp) )
             => BookedKeysAreOf(resp) ]_vars

\* the reload of a toggle that blocked a cell has failed: the entry the toggle
\* wrote and the entries of the first load are gone
C27_Witness ==
  \E i \in 1..MaxAdminActions :
    /\ toggles[i].pc = "loadBookedAppointments"
    /\ toggles[i].op = "block"
    /\ blockedTimes = <<>>
    /\ blockedMap = EmptyMap
    /\ bookedSlotKeys # {}

\* the POST or DELETE of toggle i has failed and the step handles the failure
MutationFails(i) ==
  /\ ToggleMutationReturns(i)
  /\ toggles'[i].result = "error"

\* C28: when the POST or DELETE of a toggle fails, the step leaves
\* blockedMap, blockedTimes and the grid as they were, sends no request,
\* leaves a non-empty adminError and an empty adminMessage.
C28_FailedToggleLeavesNoMessage ==
  [][\A i \in 1..MaxAdminActions :
       MutationFails(i)
         => /\ UNCHANGED <<blockedMap, blockedTimes, calendarDays, calendarRows>>
            /\ toggles'[i].req = NoRequest
            /\ \A j \in 1..MaxAdminActions : j # i => toggles'[j] = toggles[j]
            /\ UNCHANGED <<initBlocked, initBooked, polls, srvVars>>
            /\ adminError' # ""
            /\ adminMessage' = ""]_vars

\* what does hold of a failed POST or DELETE: the step changes neither the
\* maps nor the grid, sends nothing, and leaves an error; adminMessage keeps
\* the value it had
FailedToggleChangesNothingElse ==
  [][\A i \in 1..MaxAdminActions :
       MutationFails(i)
         => /\ UNCHANGED <<blockedMap, blockedTimes, calendarDays, calendarRows>>
            /\ toggles'[i].req = NoRequest
            /\ \A j \in 1..MaxAdminActions : j # i => toggles'[j] = toggles[j]
            /\ UNCHANGED <<initBlocked, initBooked, polls, srvVars, adminMessage>>
            /\ adminError' # ""
            /\ toggleCount = 1 => adminMessage' = ""]_vars

\* C29: in every state of the student availability view, also while a
\* calendar reload is in flight and after the appointment type was cleared,
\* every slot that visibleWeekSlotsByDay lists is an element of filteredSlots.
C29_WeekViewShowsFilteredSlots ==
  DisplayedSlots \subseteq SeqToSet(cal.filteredSlots)

\* what does hold: a step that regroups the week (a filter change with a type
\* selected, a week change, a stored response) leaves every listed slot in
\* filteredSlots
RegroupedWeekShowsFilteredSlots ==
  [][ (cal'.visibleWeekSlotsByDay # cal.visibleWeekSlotsByDay)
        => \A k \in DOMAIN cal'.visibleWeekSlotsByDay :
             SeqToSet(cal'.visibleWeekSlotsByDay[k]) \subseteq SeqToSet(cal'.filteredSlots) ]_vars

\* C30: while the request of a cancel, a reschedule or a notes save for an
\* appointment is in flight, the busy id of that operation
\* (cancelingAppointmentId, reschedulingAppointmentId, savingAppointmentId)
\* is the id of that appointment, also when the same operation was started
\* for another appointment before the response arrived.
C30_BusyIdIsTheOneInFlight ==
  \A i \in 1..MaxMineActions :
    mineOps[i].req.st # "none" =>
      /\ mineOps[i].kind = "cancel" => mine.cancelingAppointmentId = mineOps[i].id
      /\ mineOps[i].kind = "reschedule" => mine.reschedulingAppointmentId = mineOps[i].id
      /\ mineOps[i].kind = "notes" => mine.savingAppointmentId = mineOps[i].id

\* what does hold: a busy id other than null is the id of an appointment
\* with a request of that operation in flight
BusyIdIsOfSomeOneInFlight ==
  \A kind \in {"cancel", "reschedule", "notes"} :
    LET busy == IF kind = "cancel" THEN mine.cancelingAppointmentId
                ELSE IF kind = "reschedule" THEN mine.reschedulingAppointmentId
                ELSE mine.savingAppointmentId
    IN  busy # None =>
          \E i \in 1..MaxMineActions :
            /\ mineOps[i].kind = kind /\ mineOps[i].req.st # "none"
            /\ mineOps[i].id = busy

\* the one toggle of the session has ended well: its two reloads, issued after
\* the loads of ngOnInit, have been stored
OnlyToggleHasReloaded ==
  /\ toggleCount = 1
  /\ toggles[1].pc = "done" /\ toggles[1].result = "ok"

\* C31: when fetches of the admin view overlap, then once every response has
\* arrived blockedMap and bookedSlotKeys are those of the response to the
\* request issued last: a response of ngOnInit's loads that arrives, as the
\* last one, after the reloads of a toggle have been stored does not change
\* them.
C31_LatestRequestWins ==
  [][ /\ (InitBlockedTimesReturn /\ OnlyToggleHasReloaded /\ InFlight' = 0)
           => UNCHANGED blockedMap
      /\ (InitAppointmentsReturn /\ OnlyToggleHasReloaded /\ InFlight' = 0)
           => UNCHANGED bookedSlotKeys ]_vars

\* C32: between two handlers of the admin view the grid agrees with the maps:
\* every cell of calendarRows has isBooked true exactly when its key is in
\* bookedSlotKeys and, unless it is a lunch cell, has the blockedId that
\* blockedMap holds for its key (none when it holds none), after any sequence
\* of toggles, reloads, timer ticks and week changes.
C32_GridAgreesWithMaps ==
  \A cell \in GridCells :
    /\ cell.isBooked = (cell.key \in bookedSlotKeys)
    /\ ~cell.isLunchBreak => cell.blockedId = MapGet(blockedMap, cell.key)

\* after a toggle has written its new block into the map, the grid shows that
\* block, and shows a booked cell
C32_Witness ==
  /\ \E i \in 1..MaxAdminActions :
       /\ toggles[i].op = "block" /\ toggles[i].blockId # None
       /\ \E cell \in GridCells :
            /\ ~cell.isLunchBreak
            /\ cell.key = toggles[i].cell[1].key
            /\ cell.blockedId = toggles[i].blockId
  /\ \E cell \in GridCells : cell.isBooked

\* C33: whenever the reschedule panel is closed (reschedulePanelAppointmentId
\* is null), rescheduleOptions is empty, selectedRescheduleStartTime is null
\* and isLoadingRescheduleOptions is false, also when the panel was closed or
\* switched while an options request was in flight.
C33_ClosedPanelHoldsNothing ==
  mine.reschedulePanelAppointmentId = None =>
    /\ mine.rescheduleOptions = <<>>
    /\ mine.selectedRescheduleStartTime = None
    /\ ~mine.isLoadingRescheduleOptions

\* what does hold: the step that closes the panel empties the three fields
ClosingThePanelEmptiesIt ==
  [][ (mine.reschedulePanelAppointmentId # None
         /\ mine'.reschedulePanelAppointmentId = None)
        => /\ mine'.rescheduleOptions = <<>>
           /\ mine'.selectedRescheduleStartTime = None
           /\ ~mine'.isLoadingRescheduleOptions ]_vars

\* C34: every reschedule PATCH that is sent for an appointment carries a
\* start_time that was among the options fetched for that appointment: when
\* the PATCH is sent, an options request for the appointment has been
\* answered with success and the picker offers the start the PATCH carries.
C34_PatchStartWasOfferedForIt ==
  [][ ( /\ mineOpCount' = mineOpCount + 1
        /\ mineOps'[mineOpCount + 1].kind = "reschedule" )
        => /\ \E j \in 1..mineOpCount :
                /\ mineOps[j].kind = "options"
                /\ mineOps[j].id = mineOps'[mineOpCount + 1].id
                /\ mineOps[j].result = "ok"
           /\ mineOps'[mineOpCount + 1].arg[1] \in OfferedStarts ]_vars

\* what does hold: the start a PATCH carries is one the picker offers when
\* the PATCH is sent
PatchStartIsOffered ==
  [][ ( /\ mineOpCount' = mineOpCount + 1
        /\ mineOps'[mineOpCount + 1].kind = "reschedule" )
        => mineOps'[mineOpCount + 1].arg[1] \in OfferedStarts ]_vars

\* an appointment whose cancel has ended well is not in the list
CanceledIsNotListed ==
  \A i \in 1..MaxMineActions :
    (mineOps[i].kind = "cancel" /\ mineOps[i].result = "ok")
      => \A k \in DOMAIN mine.appointments :
           Some(mine.appointments[k].id) # mineOps[i].id

\* C35: once a successful cancel has removed an appointment from the list,
\* no response that arrives later (of a notes save or a reschedule of that
\* appointment that was in flight) puts an entry with its id back: an
\* appointment whose cancel has ended well is not in the list, and after the
\* first load no step adds an id to the list.
C35_CanceledStaysOut ==
  /\ []CanceledIsNotListed
  /\ [][ mineLoad.st = "none" /\ mineMounted
           => { mine'.appointments[k].id : k \in DOMAIN mine'.appointments }
                \subseteq { mine.appointments[k].id : k \in DOMAIN mine.appointments } ]_vars

\* a cancel of an appointment and a notes save of the same appointment have
\* both ended well, and the list does not hold the appointment
C35_Witness ==
  \E i, j \in 1..MaxMineActions :
    /\ mineOps[i].kind = "cancel" /\ mineOps[i].result = "ok"
    /\ mineOps[j].kind = "notes" /\ mineOps[j].result = "ok"
    /\ mineOps[j].id = mineOps[i].id
    /\ \A k \in DOMAIN mine.appointments : Some(mine.appointments[k].id) # mineOps[i].id
    /\ mine.appointments # <<>>

\* C36: with the session role admin the student views send no student
\* mutation, whatever is clicked: no slot is ever staged and no booking POST
\* is sent, the own-appointments fetch is not sent and the list stays empty,
\* and no cancel, reschedule, notes or reschedule-options request is sent.
C36_AdminSendsNoStudentRequest ==
  role = "admin" =>
    /\ cal.selectedBookingSlot = None
    /\ bookingCount = 0
    /\ \A i \in 1..MaxAvailActions : bookings[i].req.st = "none" /\ bookings[i].posts = 0
    /\ mineLoad.st = "none"
    /\ mine.appointments = <<>>
    /\ mineOpCount = 0
    /\ \A i \in 1..MaxMineActions : mineOps[i].kind = "none" /\ mineOps[i].req.st = "none"

\* an admin in the availability view with slots on display, after the clicks
\* the session allows
C36_Witness ==
  /\ role = "admin"
  /\ view = "availability"
  /\ DisplayedSlots # {}
  /\ userActions = MaxAvailActions

\* the email the views are to read after a login with email e and role r
ExpectedEmail(e, r) ==
  IF toLowerCase(trim(e)) # <<>>
  THEN Join(toLowerCase(trim(e)))
  ELSE Join((IF r = "admin" THEN AdminText ELSE UserText) \o LocalDomain)

\* C37: after a login submit that is accepted with role r and typed email e,
\* the session reader of every view returns role r and the email e trimmed
\* and lower-cased, or r followed by '@lynxhealth.local' when e is blank,
\* whatever was stored before (an earlier login, a malformed item or
\* nothing); and a view that is opened holds what its readers return.
C37_LoginRoundTrip ==
  [][ /\ \A e \in LoginEmails, r \in { "admin", "user" } :
           (onSubmit(e, r) /\ view' = "home")
             => \A v \in Views :
                  /\ getRole(lynxSession') = r
                  /\ getSessionEmail(v, lynxSession') = ExpectedEmail(e, r)
      /\ \A v \in Views :
           OpenView(v) => /\ role' = getRole(lynxSession)
                          /\ sessionEmail' = getSessionEmail(v, lynxSession) ]_vars

\* the own-appointments view, opened after a login as a student with a blank
\* email, holds the email the login made up
C37_Witness ==
  /\ view = "mine"
  /\ role = "user"
  /\ lynxSession = LoginSession(<< " " >>, "user")
  /\ sessionEmail = Join(UserText \o LocalDomain)

=============================================================================
